---- MODULE Spec2Model ----
(***************************************************************************)
(* A model of the SimpleHNSWIndex engine (src/src/cache.cpp, lines 349-720):*)
(* the layered graph, layer search, insertion with pruning, public search  *)
(* and the JSON state codec.                                               *)
(*                                                                         *)
(* Conventions.  Layers and lists are TLA+ sequences (1-based); node       *)
(* indices keep the program's 0-based values, so node i of a layer is      *)
(* layer[i + 1].  Coordinates are small integers, for which the program's  *)
(* double arithmetic is exact; the vectors of the model are chosen so that *)
(* every squared distance is a perfect square and std::sqrt is exact too.  *)
(* Where the C++ standard leaves the order of equal keys open              *)
(* (push_heap, pop_heap, sort, nth_element) the model follows libstdc++.   *)
(***************************************************************************)
EXTENDS Integers, Sequences, FiniteSets, TLC

\* ------------------------------------------------------------------ bounds
MaxL == 2          \* largest layer count L given to the constructor
MaxEfc == 2        \* largest construction beam width efc
MaxConn == 2       \* largest maxConnections
MaxNodes == 3      \* an insert is attempted only while every layer is smaller
MaxEf == 2         \* largest ef given to search
MaxCodecCalls == 2 \* toJSON and fromJSON are called at most this often in a run
MaxFleetInserts == 4 \* insert calls made on the further instances, all together
MaxDocLoads == 1   \* fromJSON is called on at most this many of the documents in a run
WideCap == 17      \* maxConnections of the index with the wide cap
WideNodes == 18    \* an insert into that index is attempted only while it is smaller
MaxStorageCalls == 3 \* calls made on IndexedDBStorage in a run
MaxHookInstances == 3 \* SimpleVectorDB instances made for one component
MaxHookLoads == 2  \* calls of the hook's load
MaxWasmCalls == 5  \* calls of initializeWasm
MaxCacheSize == 3  \* largest maxSize given to the LRUCache constructor

\* ------------------------------------------------------- program constants
INVALID_NODE == 2147483647   \* stands for numeric_limits<size_t>::max()

DimensionMismatchMsg == "Vectors must have the same length"
InvalidEntryMsg == "Invalid entry index"

\* The vectors offered to insert and search: three of length 1, two of length 2.
Vectors == {<<0>>, <<1>>, <<10>>, <<0, 0>>, <<3, 4>>}

\* mL in hundredths (62 is the default 0.62); -ln(u) in hundredths for the
\* uniform draws u the generator can produce.
MLValues == {62}
NegLogU == {0, 200, 400}

\* The vectors offered to the inserts of the further instances.
FleetVectors == {<<0>>, <<1>>, <<0, 0>>}

\* ----------------------------------------------------------------- helpers
Min(a, b) == IF a < b THEN a ELSE b
Max(a, b) == IF a > b THEN a ELSE b

Ok(v) == [ok |-> TRUE, val |-> v, what |-> ""]
Err(w) == [ok |-> FALSE, val |-> <<>>, what |-> w]

\* node i (0-based) of a layer
At(layer, i) == layer[i + 1]

LayerNodeWithoutVector(vec, conns, below) ==
    [vector |-> <<>>, connections |-> conns, layerBelow |-> below]
LayerNode(vec, conns, below) == [vector |-> vec, connections |-> conns, layerBelow |-> below]

RECURSIVE SumSq(_, _, _)
SumSq(a, b, i) ==
    IF i > Len(a) THEN 0
    ELSE (a[i] - b[i]) * (a[i] - b[i]) + SumSq(a, b, i + 1)

\* squaredEuclideanDistance for equal lengths; the length test that throws
\* is SameLength, asked by every caller before the sum.
SameLengthNotLonger(a, b) == Len(a) <= Len(b)
SameLength(a, b) == Len(a) = Len(b)
squaredEuclideanDistance(a, b) == SumSq(a, b, 1)

\* std::sqrt on the perfect squares the model produces
SqrtForgotten(s) == s
Sqrt(s) == CHOOSE r \in 0..s : r * r = s

\* ------------------------------------------------ libstdc++ heap algorithms
\* A heap is a sequence of pairs <<distance, node>>.  k = 1 is maxHeapComp
\* (lhs.first < rhs.first), k = -1 is minHeapComp (lhs.first > rhs.first).
Comp(k, lhs, rhs) == k * lhs[1] < k * rhs[1]

\* first[hole] := value after sifting value up from hole towards top (0-based)
RECURSIVE PushHeapFrom(_, _, _, _, _)
PushHeapFrom(k, h, hole, top, value) ==
    LET parent == (hole - 1) \div 2 IN
    IF hole > top /\ Comp(k, At(h, parent), value)
    THEN PushHeapFrom(k, [h EXCEPT ![hole + 1] = At(h, parent)], parent, top, value)
    ELSE [h EXCEPT ![hole + 1] = value]

\* std::push_heap: the last element is the one being pushed
PushHeap(k, h) == PushHeapFrom(k, h, Len(h) - 1, 0, h[Len(h)])

RECURSIVE AdjustDown(_, _, _, _, _)
AdjustDown(k, h, hole, second, len) ==
    IF second < (len - 1) \div 2
    THEN LET s2 == 2 * (second + 1)
             sc == IF Comp(k, At(h, s2), At(h, s2 - 1)) THEN s2 - 1 ELSE s2
         IN AdjustDown(k, [h EXCEPT ![hole + 1] = At(h, sc)], sc, sc, len)
    ELSE [h |-> h, hole |-> hole, second |-> second]

\* std::__adjust_heap over the first len elements, hole at index 0
AdjustHeap(k, h, len, value) ==
    LET d == AdjustDown(k, h, 0, 0, len)
        e == IF len % 2 = 0 /\ d.second = (len - 2) \div 2
             THEN LET s2 == 2 * (d.second + 1)
                  IN [h |-> [d.h EXCEPT ![d.hole + 1] = At(d.h, s2 - 1)], hole |-> s2 - 1]
             ELSE [h |-> d.h, hole |-> d.hole]
    IN PushHeapFrom(k, e.h, e.hole, 0, value)

\* std::pop_heap: the top moves to the back, the rest is a heap again
PopHeap(k, h) ==
    IF Len(h) <= 1 THEN h
    ELSE LET n == Len(h)
             value == h[n]
             moved == [h EXCEPT ![n] = h[1]]
         IN AdjustHeap(k, moved, n - 1, value)

\* std::priority_queue with minHeapComp
PQPush(q, e) == PushHeap(-1, Append(q, e))
PQTop(q) == q[1]
PQPop(q) == LET p == PopHeap(-1, q) IN SubSeq(p, 1, Len(p) - 1)

\* ------------------------------------------------------ libstdc++ sorting
\* std::__insertion_sort by .first: an element moves left past the strictly
\* larger ones only.
RECURSIVE InsertSorted(_, _)
InsertSorted(s, e) ==
    IF s = <<>> THEN <<e>>
    ELSE IF e[1] < s[Len(s)][1]
         THEN Append(InsertSorted(SubSeq(s, 1, Len(s) - 1), e), s[Len(s)])
         ELSE Append(s, e)

RECURSIVE InsertionSort(_)
InsertionSort(s) ==
    IF s = <<>> THEN <<>>
    ELSE InsertSorted(InsertionSort(SubSeq(s, 1, Len(s) - 1)), s[Len(s)])

\* ---------------------------------------------------- libstdc++ nth_element
\* _S_threshold of std::sort
SortThreshold == 16

Swap(s, i, j) == [s EXCEPT ![i + 1] = s[j + 1], ![j + 1] = s[i + 1]]
Less(s, i, j) == At(s, i)[1] < At(s, j)[1]

\* std::__move_median_to_first
MoveMedianToFirst(s, result, a, b, c) ==
    IF Less(s, a, b)
    THEN IF Less(s, b, c) THEN Swap(s, result, b)
         ELSE IF Less(s, a, c) THEN Swap(s, result, c)
         ELSE Swap(s, result, a)
    ELSE IF Less(s, a, c) THEN Swap(s, result, a)
    ELSE IF Less(s, b, c) THEN Swap(s, result, c)
    ELSE Swap(s, result, b)

RECURSIVE SkipUp(_, _, _)
SkipUp(s, first, pivot) == IF Less(s, first, pivot) THEN SkipUp(s, first + 1, pivot) ELSE first

RECURSIVE SkipDown(_, _, _)
SkipDown(s, last, pivot) == IF Less(s, pivot, last) THEN SkipDown(s, last - 1, pivot) ELSE last

\* std::__unguarded_partition: the cut and the permuted sequence
RECURSIVE UnguardedPartition(_, _, _, _)
UnguardedPartition(s, first, last, pivot) ==
    LET f == SkipUp(s, first, pivot)
        l == SkipDown(s, last - 1, pivot)
    IN IF ~(f < l) THEN [s |-> s, cut |-> f]
       ELSE UnguardedPartition(Swap(s, f, l), f + 1, l, pivot)

\* std::__introsort_loop on [first, last): ranges of more than 16 elements
\* are partitioned around the median of three, the right part first.  With
\* at most 17 elements its depth limit 2 * lg(n) is never used up, so the
\* partial_sort fallback is left out.
RECURSIVE IntrosortLoop(_, _, _)
\* the loop goes on with the two parts of the partition p
SortParts(p, first, last) == IntrosortLoop(IntrosortLoop(p.s, p.cut, last), first, p.cut)

IntrosortLoop(s, first, last) ==
    IF last - first <= SortThreshold THEN s
    ELSE SortParts(UnguardedPartition(
                       MoveMedianToFirst(s, first, first + 1,
                                         first + (last - first) \div 2, last - 1),
                       first + 1, last, first),
                   first, last)

\* std::sort by .first: the introsort loop, then the final insertion sort
SortByFirst(s) == InsertionSort(IntrosortLoop(s, 0, Len(s)))

\* std::__introselect on [first, last); with at most 9 elements its depth
\* limit 2 * lg(n) is never used up, so the heap_select fallback is left out.
RECURSIVE Introselect(_, _, _, _)
Introselect(s, first, nth, last) ==
    IF last - first > 3
    THEN LET mid == first + (last - first) \div 2
             m == MoveMedianToFirst(s, first, first + 1, mid, last - 1)
             p == UnguardedPartition(m, first + 1, last, first)
         IN Introselect(p.s, IF p.cut <= nth THEN p.cut ELSE first, nth,
                        IF p.cut <= nth THEN last ELSE p.cut)
    ELSE SubSeq(s, 1, first) \o InsertionSort(SubSeq(s, first + 1, last)) \o SubSeq(s, last + 1, Len(s))

\* std::nth_element(begin, begin + nth, end)
NthElement(s, nth) == IF s = <<>> \/ nth = Len(s) THEN s ELSE Introselect(s, 0, nth, Len(s))

\* ------------------------------------------------------------ the index
containsConnection(conns, target) == \E i \in 1..Len(conns) : conns[i] = target

\* the connections pruneNodeConnections does not score
SkippedOutOfRangeOnly(layer, nodeIndex, c) == c >= Len(layer)
Skipped(layer, nodeIndex, c) == c = nodeIndex \/ c >= Len(layer)

\* nth_element and resize: the target closest when there are more
KeptAll(scored, target) == scored
Kept(scored, target) ==
    IF Len(scored) > target THEN SubSeq(NthElement(scored, target), 1, target) ELSE scored

\* the (distance, connection) pair scored for connection c, if it is scored
ScoredOne(layer, nodeIndex, c) ==
    IF Skipped(layer, nodeIndex, c) THEN <<>>
    ELSE <<<<squaredEuclideanDistance(At(layer, nodeIndex).vector, At(layer, c).vector), c>>>>

RECURSIVE Scored(_, _, _, _)
\* the scoring loop of pruneNodeConnections over conns[i..]
Scored(layer, nodeIndex, conns, i) ==
    IF i > Len(conns) THEN <<>>
    ELSE ScoredOne(layer, nodeIndex, conns[i]) \o Scored(layer, nodeIndex, conns, i + 1)

RECURSIVE Dedup(_, _, _)
\* the final loop of pruneNodeConnections: push unless already contained
Dedup(scored, i, acc) ==
    IF i > Len(scored) THEN acc
    ELSE Dedup(scored, i + 1,
               IF containsConnection(acc, scored[i][2]) THEN acc ELSE Append(acc, scored[i][2]))

\* the connection list rebuilt from the sorted pairs, each pushed at the back
NewConnectionsPushedInFront(sorted) ==
    [i \in 1..Len(Dedup(sorted, 1, <<>>)) |->
        Dedup(sorted, 1, <<>>)[Len(Dedup(sorted, 1, <<>>)) - i + 1]]
NewConnections(sorted) == Dedup(sorted, 1, <<>>)

\* pruneNodeConnections: [ok, layer, what]; it throws when a scored
\* connection's vector has another length than the node's
pruneNodeConnections(layer, nodeIndex, maxConnections) ==
    IF nodeIndex = INVALID_NODE \/ nodeIndex >= Len(layer)
    THEN [ok |-> TRUE, layer |-> layer, what |-> ""]
    ELSE LET node == At(layer, nodeIndex)
             conns == node.connections
         IN IF conns = <<>> THEN [ok |-> TRUE, layer |-> layer, what |-> ""]
            ELSE IF \E i \in 1..Len(conns) :
                        /\ ~Skipped(layer, nodeIndex, conns[i])
                        /\ ~SameLength(node.vector, At(layer, conns[i]).vector)
            THEN [ok |-> FALSE, layer |-> layer, what |-> DimensionMismatchMsg]
            ELSE LET scored == Scored(layer, nodeIndex, conns, 1)
                     target == maxConnections
                     kept == Kept(scored, target)
                     sorted == SortByFirst(kept)
                     newConns == IF scored = <<>> THEN <<>> ELSE NewConnections(sorted)
                 IN [ok |-> TRUE,
                     layer |-> [layer EXCEPT ![nodeIndex + 1].connections = newConns],
                     what |-> ""]

\* emplaceBest of _searchLayer: best is a max-heap of at most ef pairs
emplaceBestUnbounded(best, candidate, ef) == PushHeap(1, Append(best, candidate))
emplaceBest(best, candidate, ef) ==
    IF Len(best) < ef THEN PushHeap(1, Append(best, candidate))
    ELSE IF candidate[1] < best[1][1]
         THEN LET p == PopHeap(1, best)
              IN PushHeap(1, [p EXCEPT ![Len(p)] = candidate])
         ELSE best

\* the body of the for loop over graphCurrent.connections for one neighbor;
\* computed lists the nodes whose distance was computed, in that order
VisitOneAgain(graph, query, ef, neighbor, st) ==
    IF neighbor >= Len(graph) THEN st
    ELSE IF ~SameLength(At(graph, neighbor).vector, query)
         THEN [st EXCEPT !.err = TRUE, !.visited = @ \cup {neighbor},
                         !.computed = Append(@, neighbor)]
    ELSE IF Len(st.best) < ef
            \/ squaredEuclideanDistance(At(graph, neighbor).vector, query) < st.best[1][1]
         THEN [st EXCEPT
                 !.visited = @ \cup {neighbor},
                 !.computed = Append(@, neighbor),
                 !.cand = PQPush(@, <<squaredEuclideanDistance(At(graph, neighbor).vector, query),
                                      neighbor>>),
                 !.best = emplaceBest(@, <<squaredEuclideanDistance(At(graph, neighbor).vector,
                                                                    query),
                                           neighbor>>, ef)]
         ELSE [st EXCEPT !.visited = @ \cup {neighbor}, !.computed = Append(@, neighbor)]
VisitOne(graph, query, ef, neighbor, st) ==
    IF neighbor >= Len(graph) THEN st
    ELSE IF neighbor \in st.visited THEN st
    ELSE IF ~SameLength(At(graph, neighbor).vector, query)
         THEN [st EXCEPT !.err = TRUE, !.visited = @ \cup {neighbor},
                         !.computed = Append(@, neighbor)]
    ELSE IF Len(st.best) < ef
            \/ squaredEuclideanDistance(At(graph, neighbor).vector, query) < st.best[1][1]
         THEN [st EXCEPT
                 !.visited = @ \cup {neighbor},
                 !.computed = Append(@, neighbor),
                 !.cand = PQPush(@, <<squaredEuclideanDistance(At(graph, neighbor).vector, query),
                                      neighbor>>),
                 !.best = emplaceBest(@, <<squaredEuclideanDistance(At(graph, neighbor).vector,
                                                                    query),
                                           neighbor>>, ef)]
         ELSE [st EXCEPT !.visited = @ \cup {neighbor}, !.computed = Append(@, neighbor)]

RECURSIVE VisitNeighbors(_, _, _, _, _, _)
\* the for loop over graphCurrent.connections
VisitNeighbors(graph, query, ef, conns, j, st) ==
    IF j > Len(conns) \/ st.err THEN st
    ELSE VisitNeighbors(graph, query, ef, conns, j + 1, VisitOne(graph, query, ef, conns[j], st))

\* one turn of the while loop: pop the closest candidate and, unless it is
\* farther than the worst of best, expand it
ExpandCloserOnly(graph, query, ef, st) ==
    IF st.best # <<>> /\ PQTop(st.cand)[1] >= st.best[1][1]
    THEN [st EXCEPT !.cand = PQPop(@)]
    ELSE VisitNeighbors(graph, query, ef, At(graph, PQTop(st.cand)[2]).connections, 1,
                        [st EXCEPT !.cand = PQPop(@)])
Expand(graph, query, ef, st) ==
    IF st.best # <<>> /\ PQTop(st.cand)[1] > st.best[1][1]
    THEN [st EXCEPT !.cand = PQPop(@)]
    ELSE VisitNeighbors(graph, query, ef, At(graph, PQTop(st.cand)[2]).connections, 1,
                        [st EXCEPT !.cand = PQPop(@)])

RECURSIVE SearchLoop(_, _, _, _)
\* the while loop over the candidate queue
SearchLoop(graph, query, ef, st) ==
    IF st.err \/ st.cand = <<>> THEN st
    ELSE SearchLoop(graph, query, ef, Expand(graph, query, ef, st))

\* the heaps and the visited set once the entry has been emplaced
Seeded(entry, entryDist, ef) ==
    [best |-> emplaceBest(<<>>, <<entryDist, entry>>, ef),
     cand |-> PQPush(<<>>, <<entryDist, entry>>),
     visited |-> {entry},
     computed |-> <<entry>>,
     err |-> FALSE]

\* the sorted best list, or the throw of a distance computed on the way
Finish(fin) == IF fin.err THEN Err(DimensionMismatchMsg) ELSE Ok(SortByFirst(fin.best))

\* _searchLayer from a valid entry: the check of ef comes before the entry's
\* distance is computed
BeamDistanceFirst(graph, entry, query, ef) ==
    IF ~SameLength(At(graph, entry).vector, query) THEN Err(DimensionMismatchMsg)
    ELSE IF ef <= 0 THEN Ok(<<>>)
    ELSE Finish(SearchLoop(graph, query, ef,
                Seeded(entry, squaredEuclideanDistance(At(graph, entry).vector, query), ef)))
Beam(graph, entry, query, ef) ==
    IF ef <= 0 THEN Ok(<<>>)
    ELSE IF ~SameLength(At(graph, entry).vector, query) THEN Err(DimensionMismatchMsg)
    ELSE Finish(SearchLoop(graph, query, ef,
                Seeded(entry, squaredEuclideanDistance(At(graph, entry).vector, query), ef)))

\* _searchLayer: Ok(list of <<squared distance, node>>) or Err(message)
searchLayer(graph, entry, query, ef) ==
    IF graph = <<>> THEN Ok(<<>>)
    ELSE IF entry = INVALID_NODE \/ entry >= Len(graph) THEN Err(InvalidEntryMsg)
    ELSE Beam(graph, entry, query, ef)

\* The generator.  std::mt19937 is a deterministic function of its seed and
\* of the number of draws made; a small congruential generator stands for it.
Seeds == {0, 4}
Advance(state) == (3 * state + 1) % 7

RECURSIVE Generated(_, _)
\* the generator's state after k draws from seed
Generated(seed, k) == IF k = 0 THEN seed ELSE Advance(Generated(seed, k - 1))

\* -log(u), in hundredths, of the u drawn in that state
NegLogOf(state) == (state % 3) * 200

\* getInsertLayer: floor(-log(u) * mL) clamped into [0, L - 1]; x is -log(u)
\* and ml is mL, both in hundredths
getInsertLayer(x, ml, nL) ==
    LET layer == (x * ml) \div 10000
    IN IF layer < 0 THEN 0 ELSE IF layer >= nL THEN nL - 1 ELSE layer

RemoveAll(s, x) == SelectSeq(s, LAMBDA e : e # x)

\* what a throw leaves behind, and a completed step
Thrown(idx, w) == [ok |-> FALSE, index |-> idx, what |-> w]
Done(idx) == [ok |-> TRUE, index |-> idx, what |-> ""]

\* the neighbour pruned (pr): the neighbour is erased from the new node's list
Unlink(pr, neighborIndex, newIndex) ==
    IF ~pr.ok THEN pr
    ELSE [pr EXCEPT !.layer[newIndex + 1].connections = RemoveAll(@, neighborIndex)]

\* the body of the back-edge loop for one selected neighbour: [ok, layer, what]
LinkOneWithoutBackEdge(graph, neighborIndex, newIndex, maxConnections) ==
    IF neighborIndex >= Len(graph) THEN [ok |-> TRUE, layer |-> graph, what |-> ""]
    ELSE Unlink(pruneNodeConnections(graph, neighborIndex, maxConnections),
                neighborIndex, newIndex)
LinkOne(graph, neighborIndex, newIndex, maxConnections) ==
    IF neighborIndex >= Len(graph) THEN [ok |-> TRUE, layer |-> graph, what |-> ""]
    ELSE Unlink(pruneNodeConnections(
                    IF containsConnection(At(graph, neighborIndex).connections, newIndex)
                    THEN graph
                    ELSE [graph EXCEPT ![neighborIndex + 1].connections = Append(@, newIndex)],
                    neighborIndex, maxConnections),
                neighborIndex, newIndex)

RECURSIVE LinkNeighbors(_, _, _, _, _)
\* the back-edge loop of insert over selectedNeighbors, on the result so far
LinkNeighbors(sofar, selected, i, newIndex, maxConnections) ==
    IF i > Len(selected) \/ ~sofar.ok THEN sofar
    ELSE LinkNeighbors(LinkOne(sofar.layer, selected[i], newIndex, maxConnections),
                       selected, i + 1, newIndex, maxConnections)

\* the descent pointer given to a node appended to layer n
BelowOwnLayer(idx, n, nL) == IF n < nL - 1 THEN Len(idx[n + 1]) ELSE INVALID_NODE
Below(idx, n, nL) == IF n < nL - 1 THEN Len(idx[n + 2]) ELSE INVALID_NODE

\* above the drawn layer insert only routes
RoutesBelow(n, l) == n > l
Routes(n, l) == n < l

\* what one turn of insert's for loop leaves: the layers, the next startV
\* and, after a throw, ok = FALSE and the message
Turn(ok, idx, startV, w) == [ok |-> ok, index |-> idx, startV |-> startV, what |-> w]

\* the turn's layer after a prune or link result r: thrown, or passed on
WithLayer(idx, n, r) == [idx EXCEPT ![n + 1] = r.layer]

\* after the second pruneNodeConnections of the new node (p2)
AfterSecondPruneWithoutDescent(idx, n, startV, p2) ==
    IF ~p2.ok THEN Turn(FALSE, WithLayer(idx, n, p2), startV, p2.what)
    ELSE Turn(TRUE, WithLayer(idx, n, p2), INVALID_NODE, "")
AfterSecondPrune(idx, n, startV, p2) ==
    IF ~p2.ok THEN Turn(FALSE, WithLayer(idx, n, p2), startV, p2.what)
    ELSE Turn(TRUE, WithLayer(idx, n, p2),
              IF startV < Len(p2.layer) THEN At(p2.layer, startV).layerBelow ELSE INVALID_NODE,
              "")

\* after the back-edge loop (lk)
AfterLink(idx, n, startV, P, lk) ==
    IF ~lk.ok THEN Turn(FALSE, WithLayer(idx, n, lk), startV, lk.what)
    ELSE AfterSecondPrune(idx, n, startV,
                          pruneNodeConnections(lk.layer, Len(idx[n + 1]), P.maxConnections))

\* the new node is appended with the selected neighbours as connections,
\* pruned, and linked back
Participate(idx, n, startV, vec, P, selectedNeighbors) ==
    AfterLink(idx, n, startV, P,
        LinkNeighbors(
            pruneNodeConnections(
                Append(idx[n + 1], LayerNode(vec, selectedNeighbors, Below(idx, n, P.L))),
                Len(idx[n + 1]), P.maxConnections),
            selectedNeighbors, 1, Len(idx[n + 1]), P.maxConnections))

\* the first maxConnections nodes of the search result
SelectedNeighbors(nns, maxConnections) ==
    [i \in 1..Min(maxConnections, Len(nns)) |-> nns[i][2]]

\* a layer at or below the drawn one, searched with efc (nns)
AfterBeam(idx, n, startV, vec, P, nns) ==
    IF ~nns.ok THEN Turn(FALSE, idx, startV, nns.what)
    ELSE Participate(idx, n, startV, vec, P, SelectedNeighbors(nns.val, P.maxConnections))

\* a layer above the drawn one, searched with ef = 1 (res)
AfterRoute(idx, startV, res) ==
    IF ~res.ok THEN Turn(FALSE, idx, startV, res.what)
    ELSE Turn(TRUE, idx, IF res.val = <<>> THEN 0 ELSE res.val[1][2], "")

\* one turn of the for loop of insert, at layer n
InsertTurn(idx, n, startV, vec, l, P) ==
    IF idx[n + 1] = <<>>
    THEN Turn(TRUE, [idx EXCEPT ![n + 1] = <<LayerNode(vec, <<>>, Below(idx, n, P.L))>>],
              startV, "")
    ELSE IF Routes(n, l)
    THEN AfterRoute(idx, startV, searchLayer(idx[n + 1], startV, vec, 1))
    ELSE AfterBeam(idx, n, startV, vec, P, searchLayer(idx[n + 1], startV, vec, P.efc))

RECURSIVE InsertLoop(_, _, _, _, _)
\* the for loop of insert from layer n on, t being what the turns before left
InsertLoop(t, n, vec, l, P) ==
    IF ~t.ok THEN Thrown(t.index, t.what)
    ELSE IF n >= P.L THEN Done(t.index)
    ELSE InsertLoop(InsertTurn(t.index, n, t.startV, vec, l, P), n + 1, vec, l, P)

\* insert with the drawn layer l
insert(idx, vec, l, P) == InsertLoop(Turn(TRUE, idx, 0, ""), 0, vec, l, P)

\* what one turn of search's for loop leaves: done with the result res, or
\* the entry for the next layer
Found(res) == [done |-> TRUE, res |-> res, bestV |-> 0]
Onward(bestV) == [done |-> FALSE, res |-> Ok(<<>>), bestV |-> bestV]

\* the squared distances of the final list turned into distances
Converted(again) ==
    IF ~again.ok THEN again
    ELSE Ok([i \in 1..Len(again.val) |-> <<Sqrt(again.val[i][1]), again.val[i][2]>>])

\* one turn of the for loop of search, sl being _searchLayer's answer
SearchTurnFirstLayer(graph, bestV, query, ef, sl) ==
    IF ~sl.ok THEN Found(sl)
    ELSE IF sl.val = <<>> THEN Onward(bestV)
    ELSE Found(Converted(searchLayer(graph, sl.val[1][2], query, ef)))
SearchTurn(graph, bestV, query, ef, sl) ==
    IF ~sl.ok THEN Found(sl)
    ELSE IF sl.val = <<>> THEN Onward(bestV)
    ELSE IF At(graph, sl.val[1][2]).layerBelow = INVALID_NODE
    THEN Found(Converted(searchLayer(graph, sl.val[1][2], query, ef)))
    ELSE Onward(At(graph, sl.val[1][2]).layerBelow)

RECURSIVE SearchFrom(_, _, _, _, _)
\* the for loop of search from layer n on, t being what the turn before left
SearchFrom(idx, n, t, query, ef) ==
    IF t.done THEN t.res
    ELSE IF n >= Len(idx) THEN Ok(<<>>)
    ELSE SearchFrom(idx, n + 1,
                    SearchTurn(idx[n + 1], t.bestV, query, ef,
                               searchLayer(idx[n + 1], t.bestV, query, ef)),
                    query, ef)

\* search: Ok(list of <<distance, node>>) or Err(message)
search(idx, query, ef) ==
    IF idx = <<>> \/ idx[1] = <<>> THEN Ok(<<>>)
    ELSE SearchFrom(idx, 0, Onward(0), query, ef)

\* ------------------------------------------------------- the state codec
\* A document is what the JSON text holds: whether it parses, the members
\* present at top level, their values, and whether "index" is a JSON array.
\* layerBelow is a JSON integer.
AllFields == {"version", "L", "mL", "efc", "maxConnections", "index"}

Document(fields, version, nL, ml, e, mc, layers) ==
    [parses |-> TRUE, has |-> fields, version |-> version, L |-> nL, mL |-> ml,
     efc |-> e, maxConnections |-> mc, indexIsArray |-> TRUE, index |-> layers]

\* a text that is not JSON
BadText == [parses |-> FALSE, has |-> {}, version |-> 0, L |-> 0, mL |-> 0,
            efc |-> 0, maxConnections |-> 0, indexIsArray |-> FALSE, index |-> <<>>]

DefaultEfc == 10
DefaultMaxConnections == 16

\* toJSON: INVALID_NODE is written as -1
toJSON(nL, ml, e, mc, idx) ==
    Document(AllFields, 1, nL, ml, e, mc,
             [n \in 1..Len(idx) |->
                [i \in 1..Len(idx[n]) |->
                   [vector |-> idx[n][i].vector,
                    connections |-> idx[n][i].connections,
                    layerBelow |-> IF idx[n][i].layerBelow = INVALID_NODE
                                   THEN -1 ELSE idx[n][i].layerBelow]]])

RECURSIVE PruneLayer(_, _, _)
\* the loop after the prune of node i (pr): a throw ends it
PrunedNode(pr, i, mc) == IF ~pr.ok THEN pr ELSE PruneLayer(pr.layer, i + 1, mc)

\* the inner loop of setIndex over one layer: [ok, layer, what]
PruneLayer(layer, i, mc) ==
    IF i >= Len(layer) THEN [ok |-> TRUE, layer |-> layer, what |-> ""]
    ELSE PrunedNode(pruneNodeConnections(layer, i, mc), i, mc)

RECURSIVE SetIndexFrom(_, _, _)
\* the loop after the prunes of layer n (pl): a throw ends it
PrunedLayer(idx, n, mc, pl) ==
    IF ~pl.ok THEN Thrown([idx EXCEPT ![n] = pl.layer], pl.what)
    ELSE SetIndexFrom([idx EXCEPT ![n] = pl.layer], n + 1, mc)

SetIndexFrom(idx, n, mc) ==
    IF n > Len(idx) THEN Done(idx)
    ELSE PrunedLayer(idx, n, mc, PruneLayer(idx[n], 0, mc))

\* setIndex: take the layers and prune every node
setIndex(newIndex, mc) == SetIndexFrom(newIndex, 1, mc)

Loaded(nL, ml, e, mc, idx) ==
    [ok |-> TRUE, what |-> "", L |-> nL, mL |-> ml, efc |-> e, maxConnections |-> mc, index |-> idx]
Rejected(w) ==
    [ok |-> FALSE, what |-> w, L |-> 0, mL |-> 0, efc |-> 0, maxConnections |-> 0, index |-> <<>>]

\* the reading of one node's layerBelow
layerBelowOf(raw) == IF raw < 0 THEN INVALID_NODE ELSE raw

\* maxConnections as read from the document: 16 when the member is missing
maxConnectionsOfStored(d) == d.maxConnections
maxConnectionsOf(d) ==
    IF "maxConnections" \in d.has THEN d.maxConnections ELSE DefaultMaxConnections

\* the check of L
InvalidLBelowZeroOnly(nL) == nL < 0
InvalidL(nL) == nL <= 0

\* the end of fromJSON: what setIndex threw, or the index it built (si)
Built(d, e, mc, si) ==
    IF ~si.ok THEN Rejected(si.what) ELSE Loaded(d.L, d.mL, e, mc, si.index)

\* the layers of the document as setIndex takes them
IndexVec(d) ==
    [n \in 1..d.L |->
       [i \in 1..Len(d.index[n]) |->
          LayerNode(d.index[n][i].vector, d.index[n][i].connections,
                    layerBelowOf(d.index[n][i].layerBelow))]]

\* fromJSON: the index built from a document, or the message it throws
fromJSON(d) ==
    IF ~d.parses THEN Rejected("Invalid JSON")
    ELSE IF ~({"L", "mL", "index"} \subseteq d.has) THEN Rejected("Missing required fields in JSON")
    ELSE LET e == IF "efc" \in d.has THEN d.efc ELSE DefaultEfc
             mcRaw == maxConnectionsOf(d)
         IN IF InvalidL(d.L) THEN Rejected("Invalid L in JSON")
            ELSE IF ~d.indexIsArray \/ Len(d.index) # d.L
                 THEN Rejected("Index layer count mismatch")
            ELSE Built(d, e, Max(1, mcRaw), setIndex(IndexVec(d), Max(1, mcRaw)))

\* Hand-written documents: connection lists that are over-full, repeat an
\* entry, name the node itself or name a node that does not exist.
DocNode(vec, conns, below) == [vector |-> vec, connections |-> conns, layerBelow |-> below]

OverfullOneLayer ==
    Document(AllFields, 1, 1, 62, 2, 1,
             << << DocNode(<<0>>, <<2, 1>>, -1),
                   DocNode(<<1>>, <<0, 2, 0>>, -1),
                   DocNode(<<10>>, <<2, 7, 1, 0>>, -1) >> >>)

OverfullTwoLayers ==
    Document(AllFields \ {"version"}, 1, 2, 62, 1, 1,
             << << DocNode(<<0>>, <<0, 3>>, 0) >>,
                << DocNode(<<0>>, <<1, 1, 0, 5>>, -1),
                   DocNode(<<10>>, <<0, 0>>, -1) >> >>)

CraftedDocs == {OverfullOneLayer, OverfullTwoLayers}

\* Documents whose two layers disagree: on the length of the vectors, and
\* on where a descent pointer may point.
MixedDimensions ==
    Document(AllFields, 1, 2, 62, 1, 1,
             << << DocNode(<<0>>, <<>>, 0) >>,
                << DocNode(<<0, 0>>, <<>>, -1) >> >>)

DanglingDescent ==
    Document(AllFields, 1, 2, 62, 1, 1,
             << << DocNode(<<0>>, <<>>, 5) >>,
                << DocNode(<<0>>, <<>>, -1) >> >>)

\* Documents fromJSON has to turn down: a required member is missing, L
\* is not positive, "index" has not L layers or is not an array.
OneLayer == << << DocNode(<<0>>, <<>>, -1) >> >>

Lacking(field) == Document(AllFields \ {field}, 1, 1, 62, 1, 1, OneLayer)

ZeroL == Document(AllFields, 1, 0, 62, 1, 1, <<>>)

NegativeL == Document(AllFields, 1, -1, 62, 1, 1, OneLayer)

TooFewLayers == Document(AllFields, 1, 2, 62, 1, 1, OneLayer)

TooManyLayers == Document(AllFields, 1, 1, 62, 1, 1, OneLayer \o OneLayer)

IndexNotArray == [Document(AllFields, 1, 1, 62, 1, 1, OneLayer) EXCEPT !.indexIsArray = FALSE]

MalformedDocs ==
    {BadText, Lacking("L"), Lacking("mL"), Lacking("index"), ZeroL, NegativeL, TooFewLayers,
     TooManyLayers, IndexNotArray}

\* A document whose lists are within maxConnections but not as a prune
\* leaves them: out of order, two equally far, naming the node itself.
WithinCapUnpruned ==
    Document(AllFields, 1, 1, 62, 1, 2,
             << << DocNode(<<0>>, <<2, 1>>, -1),
                   DocNode(<<1>>, <<2, 0>>, -1),
                   DocNode(<<2>>, <<2, 2>>, -1) >> >>)

\* A node with 17 connections, all equally far, under a cap of 17.
ManyTies ==
    Document(AllFields, 1, 1, 62, 1, 17,
             << <<DocNode(<<0>>, [i \in 1..17 |-> i], -1)>>
                \o [i \in 1..17 |-> DocNode(<<1>>, <<>>, -1)] >>)

\* Documents of older writers: without maxConnections, without version.
Legacy ==
    Document(AllFields \ {"maxConnections", "version"}, 0, 1, 62, 1, 0,
             << << DocNode(<<0>>, <<1, 2>>, -1),
                   DocNode(<<1>>, <<0, 2>>, -1),
                   DocNode(<<10>>, <<1, 0>>, -1) >> >>)

Capless == Document(AllFields \ {"maxConnections"}, 1, 1, 62, 1, 0, OneLayer)

\* A document whose efc is 0.
ZeroEfc == Document(AllFields, 1, 1, 62, 0, 1, OneLayer)

\* A document whose layer 0 holds no node while its layer 1 holds one.
EmptyLowerLayer ==
    Document(AllFields, 1, 2, 62, 1, 1, << <<>>, << DocNode(<<0>>, <<>>, -1) >> >>)

Documents ==
    CraftedDocs \cup {MixedDimensions, DanglingDescent, WithinCapUnpruned, ManyTies, ZeroEfc,
                      Legacy, Capless, EmptyLowerLayer}
        \cup MalformedDocs

\* toBinary and fromBinary: both throw NotImplementedException, whose what()
\* is the message, " : " and the name of the function that built it
ToBinaryMsg == "Binary serialization is not implemented yet. : NotImplementedException"
FromBinaryMsg == "Binary deserialization is not implemented yet. : NotImplementedException"

toBinaryEmpty(idx) == Ok(<<>>)
toBinary(idx) == Err(ToBinaryMsg)

fromBinary(binary) == Err(FromBinaryMsg)

\* the byte vectors handed to fromBinary
Binaries == {<<>>, <<0>>, <<255, 1>>}

\* the exception class each message is thrown with
ExceptionOf(what) ==
    IF what \in {DimensionMismatchMsg, InvalidEntryMsg, "Invalid JSON",
                 "Missing required fields in JSON", "Invalid L in JSON",
                 "Index layer count mismatch"}
    THEN "std::invalid_argument"
    ELSE IF what \in {ToBinaryMsg, FromBinaryMsg} THEN "NotImplementedException"
    ELSE "none"

\* ------------------------------------------------------------- the state
\* --------------------------------------------------------- IndexedDBStorage
\* The object store "indexes" (keyPath id) of the database, and the calls of
\* IndexedDBStorage on it.  The names are the keys; KeyOrder is their order
\* in the store, which getAll follows.  indexedDB is taken to be there and
\* its requests to succeed.
KeyOrder == <<"a", "b">>
Names == {KeyOrder[i] : i \in 1..Len(KeyOrder)}
Jsons == {"j1", "j2"}

\* the metadata argument of save: left out, an object, null
Metadatas == {"undefined", "{k:1}", "null"}
Falsy == {"undefined", "null"}

\* save(name, json, metadata = {})
DefaultMetadata(metadata) == IF metadata = "undefined" THEN "{}" ELSE metadata

\* metadata || {}
MetadataOrEmpty(metadata) == IF metadata \in Falsy THEN "{}" ELSE metadata

NoRecord ==
    [present |-> FALSE, id |-> "", name |-> "", data |-> "", timestamp |-> 0, metadata |-> ""]

\* the object save puts
Record(name, json, timestamp, metadata) ==
    [present |-> TRUE, id |-> name, name |-> name, data |-> json, timestamp |-> timestamp,
     metadata |-> metadata]

\* store.put, store.delete, store.clear, store.getAll
Put(objects, rec) == [objects EXCEPT ![rec.id] = rec]
DeleteNothing(objects, name) == objects
Delete(objects, name) == [objects EXCEPT ![name] = NoRecord]
Clear(objects) == [n \in Names |-> NoRecord]
GetAll(objects) ==
    LET Held(n) == objects[n].present
        keys == SelectSeq(KeyOrder, Held)
    IN [i \in 1..Len(keys) |-> objects[keys[i]]]

NotFoundMsg(name) == <<"Index not found", name>>

\* onsuccess of load's request
LoadOutcome(objects, name) ==
    IF objects[name].present
    THEN Ok([data |-> objects[name].data,
             metadata |-> MetadataOrEmpty(objects[name].metadata),
             timestamp |-> objects[name].timestamp])
    ELSE Err(NotFoundMsg(name))

\* exists: true when load resolves, false when it rejects
ExistsOutcome(loaded) == Ok(loaded.ok)

\* onsuccess of list's request
ListOutcome(items) ==
    Ok([i \in 1..Len(items) |->
          [id |-> items[i].id, name |-> items[i].name, timestamp |-> items[i].timestamp,
           metadata |-> MetadataOrEmpty(items[i].metadata)]])

StorageOps == {"save", "load", "delete", "list", "exists", "clear"}

\* a call that awaits openDB
PendingCall(num, op, name, json, metadata) ==
    [num |-> num, op |-> op, name |-> name, json |-> json, given |-> metadata,
     metadata |-> DefaultMetadata(metadata), phase |-> "opening", ticket |-> 0,
     timestamp |-> 0]

\* the store after the request of call c
Applied(objects, c) ==
    CASE c.op = "save" -> Put(objects, Record(c.name, c.json, c.timestamp, c.metadata))
      [] c.op = "delete" -> Delete(objects, c.name)
      [] c.op = "clear" -> Clear(objects)
      [] OTHER -> objects

\* what the promise of call c settles with
Outcome(objects, c) ==
    CASE c.op = "load" -> LoadOutcome(objects, c.name)
      [] c.op = "exists" -> ExistsOutcome(LoadOutcome(objects, c.name))
      [] c.op = "list" -> ListOutcome(GetAll(objects))
      [] OTHER -> Ok(<<>>)

\* The map a caller expects: the data and metadata of the last save that
\* resolved under each name, none after a delete or a clear.
NotSaved == [saved |-> FALSE, data |-> "", metadata |-> ""]
Noted(latest, c) ==
    CASE c.op = "save" ->
           [latest EXCEPT ![c.name] = [saved |-> TRUE, data |-> c.json, metadata |-> c.given]]
      [] c.op = "delete" -> [latest EXCEPT ![c.name] = NotSaved]
      [] c.op = "clear" -> [n \in Names |-> NotSaved]
      [] OTHER -> latest

NoAnswer == [op |-> "none", name |-> "", out |-> Ok(<<>>)]

NoStorage ==
    [objects |-> [n \in Names |-> NoRecord], pending |-> {}, made |-> 0, tickets |-> 0,
     answer |-> NoAnswer, latest |-> [n \in Names |-> NotSaved]]

\* -------------------------------------------------------------- useVectorDB
\* A component that uses the hook: whether it is mounted, isReady, the
\* layer count it passes, dbRef.current (0 for null, else the number of the
\* instance), the instances whose index is not deleted, the number of
\* instances made and the load calls that await fromJSON.
NoHook ==
    [phase |-> "initial", isReady |-> FALSE, L |-> 5, ref |-> 0, live |-> {}, made |-> 0,
     loads |-> {}, called |-> 0, used |-> [op |-> "none", outcome |-> "none"]]

\* the layer counts a component passes, and the texts it loads
HookLayers == {0, 5}
HookTexts == {"document", "not a document"}

\* SimpleVectorDB.delete on dbRef.current: the index is deleted once
DeleteKeepsIndex(h) == h
DeleteCurrent(h) == [h EXCEPT !.live = @ \ {h.ref}]

\* the cleanup of the effect
Cleanup(h) == IF h.ref # 0 THEN [DeleteCurrent(h) EXCEPT !.ref = 0] ELSE h

\* the effect: new SimpleVectorDB(L, mL, efc) when ready and dbRef.current
\* is null; the constructor throws for L <= 0 and the hook logs it
Effect(h) ==
    IF h.isReady /\ h.ref = 0 /\ h.L > 0
    THEN [h EXCEPT !.made = @ + 1, !.ref = h.made + 1, !.live = @ \cup {h.made + 1}]
    ELSE h

\* load up to its await: dbRef.current is deleted and stays referenced
LoadCalled(h, text) ==
    [(IF h.ref # 0 THEN DeleteCurrent(h) ELSE h) EXCEPT
        !.called = @ + 1,
        !.loads = @ \cup {[num |-> h.called + 1, text |-> text]}]

\* load after its await: fromJSON returned an instance, or threw
LoadResumed(h, l) ==
    IF l.text = "document"
    THEN [h EXCEPT !.made = @ + 1, !.ref = h.made + 1, !.live = @ \cup {h.made + 1},
                   !.loads = @ \ {l}]
    ELSE [h EXCEPT !.loads = @ \ {l}]

NotInitializedMsg == "VectorDB not initialized"
HookOps == {"insert", "search", "save"}

\* the hook's insert, search or save: it throws when dbRef.current is null
\* and else calls the wrapper, whose index is null once it was deleted
Used(h, op) ==
    [h EXCEPT !.used = [op |-> op,
                        outcome |-> IF h.ref = 0 THEN NotInitializedMsg
                                    ELSE IF h.ref \in h.live THEN "acted on the index"
                                    ELSE "TypeError: index is null"]]

\* ------------------------------------------------ one call of _searchLayer
\* Layers as a caller may hand them over: three nodes whose lists may name
\* the node itself, a node twice, a node that does not exist, or nobody,
\* and whose vectors may differ in length.
ProbeLists == {<<>>, <<1>>, <<2, 0>>, <<0, 1>>, <<7, 2>>, <<1, 1>>}
ProbeVectors ==
    { << <<0>>, <<1>>, <<10>> >>, << <<10>>, <<0>>, <<1>> >>, << <<1>>, <<0, 0>>, <<0>> >> }
ProbeLayers ==
    {<<>>} \cup {[i \in 1..3 |-> LayerNode(v[i], c[i], INVALID_NODE)] :
                    v \in ProbeVectors, c \in [1..3 -> ProbeLists]}
ProbeEntries == {0, 1, 2, 3, INVALID_NODE}

\* the call's locals before the entry is emplaced
NoSearchState == [best |-> <<>>, cand |-> <<>>, visited |-> {}, computed |-> <<>>, err |-> FALSE]

NoProbe ==
    [phase |-> "idle", graph |-> <<>>, entry |-> 0, query |-> <<>>, ef |-> 0,
     st |-> NoSearchState, turns |-> 0, out |-> Ok(<<>>)]

\* the call ended with res before or after its loop
Ended(p, res) == [p EXCEPT !.phase = IF res.ok THEN "returned" ELSE "thrown", !.out = res]

\* _searchLayer up to the first test of its while loop
EnteredAskingFirst(p) ==
    IF p.graph = <<>> \/ p.ef <= 0 THEN Ended(p, Ok(<<>>))
    ELSE IF p.entry = INVALID_NODE \/ p.entry >= Len(p.graph) THEN Ended(p, Err(InvalidEntryMsg))
    ELSE IF ~SameLength(At(p.graph, p.entry).vector, p.query)
    THEN Ended(p, Err(DimensionMismatchMsg))
    ELSE [p EXCEPT !.phase = "looping",
                   !.st = Seeded(p.entry,
                                 squaredEuclideanDistance(At(p.graph, p.entry).vector, p.query),
                                 p.ef)]
Entered(p) ==
    IF p.graph = <<>> THEN Ended(p, Ok(<<>>))
    ELSE IF p.entry = INVALID_NODE \/ p.entry >= Len(p.graph) THEN Ended(p, Err(InvalidEntryMsg))
    ELSE IF p.ef <= 0 THEN Ended(p, Ok(<<>>))
    ELSE IF ~SameLength(At(p.graph, p.entry).vector, p.query)
    THEN Ended(p, Err(DimensionMismatchMsg))
    ELSE [p EXCEPT !.phase = "looping",
                   !.st = Seeded(p.entry,
                                 squaredEuclideanDistance(At(p.graph, p.entry).vector, p.query),
                                 p.ef)]

\* ----------------------------------------------------- initializeWasm
\* wasmModule is null (0), no call made
NoWasm == [module |-> 0, made |-> 0, called |-> 0, awaiting |-> {}, got |-> <<>>]

\* initializeWasm up to its await: the factory is invoked when wasmModule
\* is null, else the module is returned
WasmCalled(w) ==
    IF w.module = 0
    THEN [w EXCEPT !.called = @ + 1, !.made = @ + 1, !.awaiting = @ \cup {w.made + 1}]
    ELSE [w EXCEPT !.called = @ + 1, !.got = Append(@, w.module)]

\* initializeWasm after its await: the factory's module m is assigned to
\* wasmModule, and wasmModule is returned
WasmResumed(w, m) == [w EXCEPT !.module = m, !.awaiting = @ \ {m}, !.got = Append(@, m)]

\* ----------------------------------------------------------- LRUCache
CacheKeys == {1, 2, 3, 4}
CacheValues == {"v", "w"}
NoValue == "nullopt"

\* no cache constructed
NoCache ==
    [made |-> FALSE, maxSize |-> 0, maxSize_ |-> 0, item_list_ |-> <<>>, map_ |-> {},
     recent |-> <<>>, was |-> <<>>, op |-> "none", key |-> 0, out |-> NoValue]

\* LRUCache(maxSize): maxSize_ is at least 1
Constructed(maxSize) ==
    [NoCache EXCEPT !.made = TRUE, !.maxSize = maxSize, !.maxSize_ = Max(1, maxSize),
                    !.op = "LRUCache"]

\* the place of the key in the list, 0 when it is not there
PlaceOf(list, key) ==
    IF \E i \in 1..Len(list) : list[i][1] = key
    THEN CHOOSE i \in 1..Len(list) : list[i][1] = key
    ELSE 0

\* splice(begin, list, it): the item at place i is moved to the front
SpliceToFront(list, i) ==
    <<list[i]>> \o SubSeq(list, 1, i - 1) \o SubSeq(list, i + 1, Len(list))

RECURSIVE evict_if_needed(_)
\* evict_if_needed with no age limit: the back goes while there are too many
evict_if_needed(c) ==
    IF Len(c.item_list_) > c.maxSize_
    THEN evict_if_needed([c EXCEPT
            !.map_ = @ \ {c.item_list_[Len(c.item_list_)][1]},
            !.item_list_ = SubSeq(@, 1, Len(@) - 1)])
    ELSE c

\* the keys in the order of their last use, the latest first
UsedNow(recent, key) == <<key>> \o SelectSeq(recent, LAMBDA k : k # key)

\* put_impl
put_impl(c, key, value) ==
    IF key \in c.map_
    THEN [c EXCEPT !.item_list_ =
                       SpliceToFront([@ EXCEPT ![PlaceOf(@, key)] = <<key, value>>],
                                     PlaceOf(@, key))]
    ELSE evict_if_needed([c EXCEPT !.item_list_ = <<<<key, value>>>> \o @,
                                   !.map_ = @ \cup {key}])

\* get: the value, moved to the front, or nullopt
getWithoutSplice(c, key) ==
    IF key \notin c.map_ THEN [c EXCEPT !.out = NoValue]
    ELSE [c EXCEPT !.out = c.item_list_[PlaceOf(c.item_list_, key)][2]]
get(c, key) ==
    IF key \notin c.map_ THEN [c EXCEPT !.out = NoValue]
    ELSE [c EXCEPT !.item_list_ = SpliceToFront(@, PlaceOf(@, key)),
                   !.out = c.item_list_[PlaceOf(c.item_list_, key)][2]]

VARIABLES
    L, mL, efc, maxConnections,   \* the four tuning scalars of the index
    index,                        \* the layers
    last,                         \* the last call made and what it returned
    inserted,                     \* the vectors inserted successfully, in order
    drawn,                        \* the layer drawn by each of those inserts
    origin,                       \* "create": built by the constructor and inserts only
    doc,                          \* the document last produced by toJSON
    snap,                         \* the layers, and their origin, when doc was produced
    before,                       \* the layers as they were before the last call
    codecCalls,                   \* the number of codec calls made
    given,                        \* the document last handed to fromJSON
    fleet,                        \* further instances, each with its own rng
    storage,                      \* the object store of IndexedDBStorage and the calls on it
    hook,                         \* a component using useVectorDB and its instances
    probe,                        \* one call of _searchLayer, turn by turn
    wasm,                         \* the module variable of the wrapper and the initializeWasm calls
    cache                         \* an LRUCache with no age limit

vars == <<L, mL, efc, maxConnections, index, last, inserted, drawn, origin, doc, snap, before,
          codecCalls, given, fleet, storage, hook, probe, wasm, cache>>

Params == [L |-> L, efc |-> efc, maxConnections |-> maxConnections]

\* Instances next to the one above.  Each holds its own generator: the seed
\* it was constructed with and the number of draws made from it.
Instances == {1, 2, 3}

Absent == [created |-> FALSE, seed |-> 0, draws |-> 0, fed |-> <<>>, index |-> <<>>]

Call(op, ok, what, vec, ef, l, out) ==
    [op |-> op, ok |-> ok, what |-> what, vec |-> vec, ef |-> ef, l |-> l, out |-> out]

\* SimpleHNSWIndex(L_, mL_, efc_, maxConnectionsPerLayer): L empty layers
Init ==
    /\ L \in 1..MaxL
    /\ mL \in MLValues
    /\ efc \in 1..MaxEfc
    /\ \E mc \in 1..MaxConn : maxConnections = Max(1, mc)
    /\ index = [n \in 1..L |-> <<>>]
    /\ last = Call("create", TRUE, "", <<>>, 0, 0, <<>>)
    /\ inserted = <<>>
    /\ drawn = <<>>
    /\ origin = "create"
    /\ doc = BadText
    /\ snap = [index |-> <<>>, origin |-> "none"]
    /\ before = index
    /\ codecCalls = 0
    /\ given = BadText
    /\ fleet = [k \in Instances |-> Absent]
    /\ storage = NoStorage
    /\ hook = NoHook
    /\ probe = NoProbe
    /\ wasm = NoWasm
    /\ cache = NoCache

\* the index as insert(vec) with the drawn layer l leaves it (r)
Stored(vec, l, r) ==
    /\ index' = r.index
    /\ last' = Call("insert", r.ok, r.what, vec, 0, l, <<>>)
    /\ inserted' = IF r.ok THEN Append(inserted, vec) ELSE inserted
    /\ drawn' = IF r.ok THEN Append(drawn, l) ELSE drawn

Insert ==
    /\ \A n \in 1..Len(index) : Len(index[n]) < MaxNodes
    /\ \E vec \in Vectors, x \in NegLogU :
         Stored(vec, getInsertLayer(x, mL, L),
                insert(index, vec, getInsertLayer(x, mL, L), Params))
    /\ before' = index
    /\ UNCHANGED <<L, mL, efc, maxConnections, origin, doc, snap, codecCalls, given, fleet, storage, hook, probe, wasm, cache>>

\* what search(query, ef) returned or threw (r)
Answered(query, ef, r) == last' = Call("search", r.ok, r.what, query, ef, 0, r.val)

Search ==
    /\ \E query \in Vectors, ef \in 0..MaxEf : Answered(query, ef, search(index, query, ef))
    /\ before' = index
    /\ UNCHANGED <<L, mL, efc, maxConnections, index, inserted, drawn, origin, doc, snap,
                   codecCalls, given, fleet, storage, hook, probe, wasm, cache>>

ToJSON ==
    /\ codecCalls < MaxCodecCalls
    /\ codecCalls' = codecCalls + 1
    /\ doc' = toJSON(L, mL, efc, maxConnections, index)
    /\ snap' = [index |-> index, origin |-> origin]
    /\ last' = Call("toJSON", TRUE, "", <<>>, 0, 0, <<>>)
    /\ before' = index
    /\ UNCHANGED <<L, mL, efc, maxConnections, index, inserted, drawn, origin, given, fleet, storage, hook, probe, wasm, cache>>

\* the index becomes the one fromJSON built (r); a throw leaves it alone
Adopt(op, r) ==
    /\ codecCalls < MaxCodecCalls
    /\ codecCalls' = codecCalls + 1
    /\ last' = Call(op, r.ok, r.what, <<>>, 0, 0, <<>>)
    /\ L' = IF r.ok THEN r.L ELSE L
    /\ mL' = IF r.ok THEN r.mL ELSE mL
    /\ efc' = IF r.ok THEN r.efc ELSE efc
    /\ maxConnections' = IF r.ok THEN r.maxConnections ELSE maxConnections
    /\ index' = IF r.ok THEN r.index ELSE index
    /\ inserted' = IF r.ok THEN <<>> ELSE inserted
    /\ drawn' = IF r.ok THEN <<>> ELSE drawn
    /\ origin' = IF r.ok THEN "json" ELSE origin
    /\ before' = index
    /\ UNCHANGED <<doc, snap, fleet, storage, hook, probe, wasm, cache>>

Load(op, d) == Adopt(op, fromJSON(d)) /\ given' = d

\* fromJSON of the document produced last
FromJSON == Load("fromJSON", doc)

\* fromJSON of a document written by hand
FromCrafted == \E d \in CraftedDocs : Load("fromCrafted", d)

Next == Insert \/ Search \/ FromCrafted

Spec == Init /\ [][Next]_vars

NextCodec == Insert \/ ToJSON \/ FromJSON \/ FromCrafted

SpecCodec == Init /\ [][NextCodec]_vars

\* fromJSON of any of the documents
FromDocument ==
    /\ codecCalls < MaxDocLoads
    /\ \E d \in Documents : Load("fromDocument", d)

NextDocs == Insert \/ FromDocument

SpecDocs == Init /\ [][NextDocs]_vars

\* SimpleHNSWIndex(L, mL, efc, maxConnections, seed) for a further instance
CreateInstance ==
    /\ \E k \in Instances, seed \in Seeds :
         /\ ~fleet[k].created
         /\ fleet' = [fleet EXCEPT ![k] = [created |-> TRUE, seed |-> seed, draws |-> 0,
                                           fed |-> <<>>, index |-> [n \in 1..L |-> <<>>]]]
    /\ UNCHANGED <<L, mL, efc, maxConnections, index, last, inserted, drawn, origin, doc, snap,
                   before, codecCalls, given, storage, hook, probe, wasm, cache>>

RECURSIVE CallsMade(_, _)
\* the insert calls made on the instances of S
CallsMade(f, S) ==
    IF S = {} THEN 0
    ELSE LET k == CHOOSE x \in S : TRUE IN Len(f[k].fed) + CallsMade(f, S \ {k})

\* the position in the generator's stream of the next draw of instance k
StreamPositionShared(f, k) == CallsMade(f, Instances) + 1
StreamPosition(f, k) == f[k].draws + 1

\* insert on instance k: the layer is drawn from the instance's generator
\* before anything else, also when the insert then throws
InsertInto ==
    /\ CallsMade(fleet, Instances) < MaxFleetInserts
    /\ \E k \in Instances, vec \in FleetVectors :
         /\ fleet[k].created
         /\ fleet' = [fleet EXCEPT
                ![k].draws = @ + 1,
                ![k].fed = Append(@, vec),
                ![k].index =
                    insert(@, vec,
                           getInsertLayer(NegLogOf(Generated(fleet[k].seed,
                                                            StreamPosition(fleet, k))),
                                          mL, L),
                           Params).index]
    /\ UNCHANGED <<L, mL, efc, maxConnections, index, last, inserted, drawn, origin, doc, snap,
                   before, codecCalls, given, storage, hook, probe, wasm, cache>>

\* SimpleHNSWIndex(1, mL, 1, WideCap): one layer, a cap above the 16
\* elements up to which std::sort is an insertion sort
InitWide ==
    /\ L = 1
    /\ mL \in MLValues
    /\ efc = 1
    /\ maxConnections = Max(1, WideCap)
    /\ index = [n \in 1..L |-> <<>>]
    /\ last = Call("create", TRUE, "", <<>>, 0, 0, <<>>)
    /\ inserted = <<>>
    /\ drawn = <<>>
    /\ origin = "create"
    /\ doc = BadText
    /\ snap = [index |-> <<>>, origin |-> "none"]
    /\ before = index
    /\ codecCalls = 0
    /\ given = BadText
    /\ fleet = [k \in Instances |-> Absent]
    /\ storage = NoStorage
    /\ hook = NoHook
    /\ probe = NoProbe
    /\ wasm = NoWasm
    /\ cache = NoCache

\* insert of one more copy of the same vector
InsertSame ==
    /\ \A n \in 1..Len(index) : Len(index[n]) < WideNodes
    /\ \E vec \in {<<1>>}, x \in NegLogU :
         Stored(vec, getInsertLayer(x, mL, L),
                insert(index, vec, getInsertLayer(x, mL, L), Params))
    /\ before' = index
    /\ UNCHANGED <<L, mL, efc, maxConnections, origin, doc, snap, codecCalls, given, fleet, storage, hook, probe, wasm, cache>>

NextWide == InsertSame \/ ToJSON \/ FromJSON

SpecWide == InitWide /\ [][NextWide]_vars

\* toBinary on the index
ToBinary ==
    /\ last' = Call("toBinary", toBinary(index).ok, toBinary(index).what, <<>>, 0, 0,
                    toBinary(index).val)
    /\ before' = index
    /\ UNCHANGED <<L, mL, efc, maxConnections, index, inserted, drawn, origin, doc, snap,
                   codecCalls, given, fleet, storage, hook, probe, wasm, cache>>

\* fromBinary, a static function: no index comes out of it
FromBinary ==
    /\ \E binary \in Binaries :
         last' = Call("fromBinary", fromBinary(binary).ok, fromBinary(binary).what, binary, 0, 0,
                      <<>>)
    /\ before' = index
    /\ UNCHANGED <<L, mL, efc, maxConnections, index, inserted, drawn, origin, doc, snap,
                   codecCalls, given, fleet, storage, hook, probe, wasm, cache>>

NextBinary == Insert \/ Search \/ FromCrafted \/ ToBinary \/ FromBinary

SpecBinary == Init /\ [][NextBinary]_vars

NextFleet == CreateInstance \/ InsertInto

SpecFleet == Init /\ [][NextFleet]_vars

\* ------------------------------------------------------------ properties
Queries == Vectors
Efs == 0..MaxEf

LayerVectors(idx, n) == [i \in 1..Len(idx[n]) |-> idx[n][i].vector]
AllNodes(idx) == {<<n, i>> \in (1..Len(idx)) \X (0..MaxNodes + 1) : i < Len(idx[n])}
HasLength(idx, d) == \A p \in AllNodes(idx) : Len(At(idx[p[1]], p[2]).vector) = d
IsInserted(v) == \E k \in 1..Len(inserted) : inserted[k] = v

\* C1: after inserts into a created index, searching an inserted vector with
\* ef >= 1 returns a non-empty list whose first distance is 0.
C1_IdentityRetrieval ==
    (origin = "create" /\ last.op = "search" /\ last.ef >= 1 /\ IsInserted(last.vec))
        => (last.ok /\ last.out # <<>> /\ last.out[1][1] = 0)

\* C2: on an index holding n inserted vectors, a search with a query of the
\* index's dimension returns exactly min(ef, n) results.
C2_ResultCount ==
    (origin = "create" /\ last.op = "search" /\ inserted # <<>>
        /\ Len(last.vec) = Len(inserted[1]))
        => (last.ok /\ Len(last.out) = Min(last.ef, Len(inserted)))

\* C3: every list search returns has at most ef entries and its distances
\* are non-decreasing.
C3_BoundedAndSorted ==
    (last.op = "search" /\ last.ok)
        => /\ Len(last.out) <= last.ef
           /\ \A i \in 1..Len(last.out) - 1 : last.out[i][1] <= last.out[i + 1][1]

C3_Witness ==
    /\ last.op = "search" /\ last.ok
    /\ Len(last.out) = 2 /\ last.ef = 2
    /\ last.out[1][1] < last.out[2][1]

\* the pair <<distance, node>> is a node of layer n (1-based) with its true
\* Euclidean distance to the query
TruePair(idx, n, query, pair) ==
    /\ pair[2] < Len(idx[n])
    /\ Len(At(idx[n], pair[2]).vector) = Len(query)
    /\ pair[1] >= 0
    /\ pair[1] * pair[1] = squaredEuclideanDistance(At(idx[n], pair[2]).vector, query)

\* C4 as stated: every pair search returns names a node of layer 0 and
\* carries the true Euclidean distance to the vector stored there.
C4_PairsOfLayerZero ==
    (last.op = "search" /\ last.ok)
        => \A i \in 1..Len(last.out) : TruePair(index, 1, last.vec, last.out[i])

\* C4 amended: on an index built by the constructor and inserts, every pair
\* search returns names a node of the last layer, L - 1, and carries the
\* true Euclidean distance to the vector stored at that position of it.
C4_PairsOfLastLayer ==
    (origin = "create" /\ last.op = "search" /\ last.ok)
        => \A i \in 1..Len(last.out) : TruePair(index, L, last.vec, last.out[i])

C4_Witness ==
    /\ origin = "create" /\ last.op = "search" /\ last.ok
    /\ L = 2 /\ Len(index[1]) < Len(index[2])
    /\ \E i \in 1..Len(last.out) : last.out[i][2] >= Len(index[1]) /\ last.out[i][1] > 1

\* C5: loading the document written from an index built by the constructor
\* and inserts succeeds, keeps the node count of every layer and answers
\* every search as the original index does.
C5_RoundTrip ==
    (last.op = "fromJSON" /\ snap.origin = "create")
        => /\ last.ok
           /\ Len(index) = Len(snap.index)
           /\ \A n \in 1..Len(index) : Len(index[n]) = Len(snap.index[n])
           /\ \A query \in Queries, ef \in Efs :
                search(index, query, ef) = search(snap.index, query, ef)


\* C6: after every completed operation every node of every layer has at
\* most maxConnections connections.
C6_DegreeBound ==
    \A p \in AllNodes(index) : Len(At(index[p[1]], p[2]).connections) <= maxConnections

C6_Witness ==
    /\ last.op = "fromCrafted" /\ last.ok
    /\ \E p \in AllNodes(index) : Len(At(index[p[1]], p[2]).connections) = maxConnections

\* C7: every connection of a node is the index of another existing node of
\* the same layer.
C7_ConnectionsValid ==
    \A p \in AllNodes(index) :
        LET conns == At(index[p[1]], p[2]).connections
        IN \A j \in 1..Len(conns) : conns[j] < Len(index[p[1]]) /\ conns[j] # p[2]

C7_Witness ==
    /\ last.op = "fromCrafted" /\ last.ok /\ L = 2
    /\ index[1][1].connections = <<>>
    /\ index[2][1].connections = <<1>>

\* C8: after inserts into a created index, the descent pointer of every
\* node above the last layer is the position, in the next layer, of a node
\* with the same vector, and every node of the last layer has the sentinel.
C8_DescentPointers ==
    origin = "create"
        => \A p \in AllNodes(index) :
             LET node == At(index[p[1]], p[2]) IN
             IF p[1] < L
             THEN /\ node.layerBelow < Len(index[p[1] + 1])
                  /\ At(index[p[1] + 1], node.layerBelow).vector = node.vector
             ELSE node.layerBelow = INVALID_NODE

C8_Witness ==
    /\ origin = "create" /\ L = 2
    /\ Len(index[1]) = 2 /\ Len(index[2]) = 3
    /\ index[1][2].layerBelow = 2

RECURSIVE IsSubsequence(_, _)
IsSubsequence(s, t) ==
    IF s = <<>> THEN TRUE
    ELSE IF t = <<>> THEN FALSE
    ELSE IsSubsequence(IF Head(s) = Head(t) THEN Tail(s) ELSE s, Tail(t))

RECURSIVE Participants(_, _)
\* the vectors, in insertion order, of the first insert and of the inserts
\* that drew a layer at or above n (0-based), among the first k
Participants(n, k) ==
    IF k = 0 THEN <<>>
    ELSE Participants(n, k - 1) \o (IF k = 1 \/ drawn[k] <= n THEN <<inserted[k]>> ELSE <<>>)

\* C9 as stated: layer 0 holds a node for every inserted vector and the
\* layers holding a vector form a range that starts at layer 0.
C9_LayerZeroDense ==
    origin = "create"
        => /\ LayerVectors(index, 1) = inserted
           /\ \A n \in 1..L - 1 : IsSubsequence(LayerVectors(index, n + 1), LayerVectors(index, n))

\* C9 amended: the last layer, L - 1, holds a node for every inserted
\* vector, and the layers holding a vector form a range that ends at layer
\* L - 1: the vector inserted with drawn layer l has a node in exactly the
\* layers l..L-1 (the first vector in every layer).
C9_LastLayerDense ==
    origin = "create"
        => /\ LayerVectors(index, L) = inserted
           /\ \A n \in 1..L : LayerVectors(index, n) = Participants(n - 1, Len(inserted))

C9_Witness ==
    /\ origin = "create" /\ L = 2
    /\ Len(inserted) = 3
    /\ Len(index[1]) = 2 /\ Len(index[2]) = 3
    /\ drawn[2] = 1 /\ drawn[3] = 0

C11_FailedInsertLeavesIndex ==
    (last.op = "insert" /\ ~last.ok) => index = before

\* what the claim calls a document that is not parseable, lacks L, mL or
\* index, has a non-positive L, or whose index is not a list of L layers
IsMalformed(d) ==
    \/ ~d.parses
    \/ ~({"L", "mL", "index"} \subseteq d.has)
    \/ d.L <= 0
    \/ ~d.indexIsArray
    \/ Len(d.index) # d.L

\* C12: fromJSON of a document that is not parseable, lacks L, mL or index,
\* has a non-positive L or an index that is not a list of exactly L layers
\* throws std::invalid_argument with one of its four messages, and no index
\* comes out of it: the layers are those of before the call.
C12_MalformedRejected ==
    (last.op = "fromDocument" /\ IsMalformed(given))
        => /\ ~last.ok
           /\ ExceptionOf(last.what) = "std::invalid_argument"
           /\ last.what \in {"Invalid JSON", "Missing required fields in JSON",
                             "Invalid L in JSON", "Index layer count mismatch"}
           /\ index = before

C12_Witness ==
    /\ last.op = "fromDocument" /\ ~last.ok
    /\ given.parses /\ given.L = 0
    /\ last.what = "Invalid L in JSON"
    /\ inserted # <<>> /\ index = before

\* a layerBelow of the document that is neither -1 nor an index into the
\* next layer
HasDanglingDescent(d) ==
    \E n \in 1..Len(d.index) : \E i \in 1..Len(d.index[n]) :
        /\ d.index[n][i].layerBelow # -1
        /\ ~(/\ n < Len(d.index)
             /\ d.index[n][i].layerBelow >= 0
             /\ d.index[n][i].layerBelow < Len(d.index[n + 1]))

\* C13: fromJSON rejects every document in which some node's layerBelow is
\* neither -1 nor a valid index into the next layer.
C13_DanglingDescentRejected ==
    (last.op = "fromDocument" /\ ~IsMalformed(given) /\ HasDanglingDescent(given))
        => ~last.ok

\* every connection list of the document is within the maxConnections the
\* index was loaded with
ListsWithinCap(d) ==
    \A n \in 1..Len(d.index) : \A i \in 1..Len(d.index[n]) :
        Len(d.index[n][i].connections) <= maxConnections

\* C14: for an accepted document whose connection lists are all within
\* maxConnections, toJSON of the loaded index is a fixed point of a second
\* round: toJSON(fromJSON(toJSON(fromJSON(D)))) = toJSON(fromJSON(D)).
C14_SecondRoundFixedPoint ==
    (last.op = "fromDocument" /\ last.ok /\ ListsWithinCap(given))
        => /\ fromJSON(toJSON(L, mL, efc, maxConnections, index)).ok
           /\ toJSON(fromJSON(toJSON(L, mL, efc, maxConnections, index)).L,
                     fromJSON(toJSON(L, mL, efc, maxConnections, index)).mL,
                     fromJSON(toJSON(L, mL, efc, maxConnections, index)).efc,
                     fromJSON(toJSON(L, mL, efc, maxConnections, index)).maxConnections,
                     fromJSON(toJSON(L, mL, efc, maxConnections, index)).index)
              = toJSON(L, mL, efc, maxConnections, index)

FailureOf(what) ==
    IF what = DimensionMismatchMsg THEN "DimensionMismatch"
    ELSE IF what = InvalidEntryMsg THEN "InvalidEntry"
    ELSE IF what \in {ToBinaryMsg, FromBinaryMsg} THEN "Unsupported"
    ELSE "MalformedDocument"

Messages ==
    {DimensionMismatchMsg, InvalidEntryMsg, "Invalid JSON", "Missing required fields in JSON",
     "Invalid L in JSON", "Index layer count mismatch", ToBinaryMsg, FromBinaryMsg}

\* C16: the failure a call ends with has an error kind of its own: no
\* message of another failure is thrown with the same exception class.
C16_KindsTellFailuresApart ==
    ~last.ok =>
        \A what \in Messages :
            FailureOf(what) # FailureOf(last.what)
                => ExceptionOf(what) # ExceptionOf(last.what)

\* C17: toBinary and fromBinary throw NotImplementedException on every
\* call, whatever the index holds and whatever bytes are given, and leave
\* the index as it was.
C17_BinaryUnsupported ==
    last.op \in {"toBinary", "fromBinary"}
        => /\ ~last.ok
           /\ ExceptionOf(last.what) = "NotImplementedException"
           /\ FailureOf(last.what) = "Unsupported"
           /\ index = before

C17_Witness ==
    /\ last.op = "toBinary" /\ ~last.ok /\ last.what = ToBinaryMsg
    /\ Len(index) = 2 /\ Len(index[2]) = 3
    /\ index = before

\* C18: search returns the empty list and raises nothing for every query
\* and ef on an index that holds no vector, and for ef = 0 on every index.
C18_EmptyResults ==
    (/\ last.op = "search"
     /\ \/ \A n \in 1..Len(index) : index[n] = <<>>
        \/ last.ef = 0)
        => (last.ok /\ last.out = <<>>)

\* ef = 0 on an index of vectors of length 1, asked with a query of length 2
C18_Witness ==
    /\ last.op = "search" /\ last.ef = 0 /\ last.ok /\ last.out = <<>>
    /\ Len(index[1]) >= 2 /\ HasLength(index, 1) /\ Len(last.vec) = 2

\* C19: every index the constructor or fromJSON produced has exactly L
\* layers with L >= 1, an efc >= 1 and a maxConnections >= 1.
C19_ParametersInRange ==
    /\ Len(index) = L
    /\ L >= 1
    /\ efc >= 1
    /\ maxConnections >= 1

\* the document with the members it lacks written out: maxConnections 16,
\* version 1
Completed(d) ==
    [d EXCEPT !.has = @ \cup {"maxConnections", "version"},
              !.maxConnections = IF "maxConnections" \in d.has THEN @ ELSE 16,
              !.version = IF "version" \in d.has THEN @ ELSE 1]

\* C20: a document without maxConnections, without version or without both
\* is accepted by fromJSON and loads exactly as the same document with
\* maxConnections = 16 and version = 1 does.
C20_DefaultsOnRead ==
    (/\ last.op = "fromDocument"
     /\ ~IsMalformed(given)
     /\ ~({"maxConnections", "version"} \subseteq given.has))
        => /\ last.ok
           /\ fromJSON(Completed(given)).ok
           /\ L = fromJSON(Completed(given)).L
           /\ mL = fromJSON(Completed(given)).mL
           /\ efc = fromJSON(Completed(given)).efc
           /\ maxConnections = fromJSON(Completed(given)).maxConnections
           /\ index = fromJSON(Completed(given)).index

C20_Witness ==
    /\ last.op = "fromDocument" /\ last.ok
    /\ given.has = {"L", "mL", "efc", "index"}
    /\ maxConnections = 16
    /\ At(index[1], 0).connections = <<1, 2>>

\* --------------------------------------------- the calls on IndexedDBStorage
engine ==
    <<L, mL, efc, maxConnections, index, last, inserted, drawn, origin, doc, snap, before,
      codecCalls, given, fleet>>

\* A call is made when the ones before it have settled; saves under names
\* of their own are also made while each other is pending.
MayCall(op, name) ==
    \/ storage.pending = {}
    \/ /\ op = "save"
       /\ \A c \in storage.pending : c.op = "save" /\ c.name # name

\* a call of save, load, delete, list, exists or clear: it awaits openDB
StorageCall ==
    /\ storage.made < MaxStorageCalls
    /\ \E op \in StorageOps, name \in Names, json \in Jsons, metadata \in Metadatas :
         /\ op # "save" => (json = "j1" /\ metadata = "undefined")
         /\ op \in {"list", "clear"} => name = "a"
         /\ MayCall(op, name)
         /\ storage' = [storage EXCEPT
                !.made = @ + 1,
                !.pending = @ \cup {PendingCall(storage.made + 1, op, name, json, metadata)}]
    /\ UNCHANGED <<engine, hook, probe, wasm, cache>>

\* openDB resolves for one of the calls: its transaction is created and its
\* request made; Date.now() reads the number of calls made so far
StorageOpened ==
    /\ \E c \in storage.pending :
         /\ c.phase = "opening"
         /\ storage' = [storage EXCEPT
                !.tickets = @ + 1,
                !.pending = (@ \ {c}) \cup
                            {[c EXCEPT !.phase = "queued", !.ticket = storage.tickets + 1,
                                       !.timestamp = storage.made]}]
    /\ UNCHANGED <<engine, hook, probe, wasm, cache>>

\* the request of the transaction created first succeeds: the database is
\* closed and the promise settles
StorageSettled ==
    /\ \E c \in storage.pending :
         /\ c.phase = "queued"
         /\ \A d \in storage.pending : d.phase = "queued" => c.ticket <= d.ticket
         /\ storage' = [storage EXCEPT
                !.objects = Applied(@, c),
                !.pending = @ \ {c},
                !.answer = [op |-> c.op, name |-> c.name, out |-> Outcome(storage.objects, c)],
                !.latest = Noted(@, c)]
    /\ UNCHANGED <<engine, hook, probe, wasm, cache>>

InitStorage == Init /\ L = 1 /\ efc = 1 /\ maxConnections = 1 /\ mL = CHOOSE m \in MLValues : TRUE

NextStorage == StorageCall \/ StorageOpened \/ StorageSettled

SpecStorage == InitStorage /\ [][NextStorage]_vars

\* what a caller expects back for the metadata it passed to save
ExpectedMetadata(passed) == IF passed = "undefined" THEN "{}" ELSE passed

\* the same, when a metadata that is not an object comes back as {}
ExpectedOfObjects(passed) == IF passed \in {"undefined", "null"} THEN "{}" ELSE passed

NamesListed(items) == {items[i].name : i \in 1..Len(items)}

\* the last answer is the one of a map from name to the last record saved,
\* Expected telling the metadata that comes back
AnswersAsMap(Expected(_)) ==
    /\ storage.answer.op = "load" =>
         IF storage.latest[storage.answer.name].saved
         THEN /\ storage.answer.out.ok
              /\ storage.answer.out.val.data = storage.latest[storage.answer.name].data
              /\ storage.answer.out.val.metadata
                   = Expected(storage.latest[storage.answer.name].metadata)
         ELSE /\ ~storage.answer.out.ok
              /\ storage.answer.out.what = NotFoundMsg(storage.answer.name)
    /\ storage.answer.op = "exists" =>
         /\ storage.answer.out.ok
         /\ storage.answer.out.val = storage.latest[storage.answer.name].saved
    /\ storage.answer.op = "list" =>
         /\ storage.answer.out.ok
         /\ NamesListed(storage.answer.out.val) = {n \in Names : storage.latest[n].saved}
         /\ Len(storage.answer.out.val) = Cardinality(NamesListed(storage.answer.out.val))

\* C21 as stated: load(name) resolves with the data and metadata last saved
\* under name, or rejects with not-found when name is not saved, was deleted
\* or cleared; exists and list report exactly the saved names, each once.
C21_MapOfLastSaved == AnswersAsMap(ExpectedMetadata)

\* C21: the same, with the metadata last saved coming back as {} when it
\* was null (or another falsy value) and unchanged when it was an object.
C21_MapOfLastSavedObjects == AnswersAsMap(ExpectedOfObjects)

\* a load that resolved after two saves that were pending together, the
\* one under its name made with metadata null
C21_Witness ==
    /\ storage.answer.op = "load" /\ storage.answer.out.ok
    /\ storage.made = 3 /\ storage.tickets = 3 /\ storage.pending = {}
    /\ \A n \in Names : storage.latest[n].saved
    /\ storage.latest[storage.answer.name].metadata = "null"
    /\ storage.answer.out.val.metadata = "{}"
    /\ \A n \in Names : storage.objects[n].timestamp = 2

\* ------------------------------------------------- the component's life
onlyHook == <<engine, storage, probe, wasm, cache>>

\* the component mounts: the effects run with isReady false
Mount ==
    /\ hook.phase = "initial"
    /\ \E l \in HookLayers : hook' = Effect([hook EXCEPT !.phase = "mounted", !.L = l])
    /\ UNCHANGED onlyHook

\* initializeWasm resolves while mounted: isReady becomes true, the cleanup
\* of the last effect runs and then the effect
WasmReady ==
    /\ hook.phase = "mounted" /\ ~hook.isReady
    /\ hook.made < MaxHookInstances
    /\ hook' = Effect(Cleanup([hook EXCEPT !.isReady = TRUE]))
    /\ UNCHANGED onlyHook

\* the component is rendered with another L: cleanup, then the effect
Rerender ==
    /\ hook.phase = "mounted"
    /\ hook.made < MaxHookInstances
    /\ \E l \in HookLayers \ {hook.L} : hook' = Effect(Cleanup([hook EXCEPT !.L = l]))
    /\ UNCHANGED onlyHook

\* load(json) is called
HookLoad ==
    /\ hook.phase = "mounted"
    /\ hook.called < MaxHookLoads
    /\ \E text \in HookTexts : hook' = LoadCalled(hook, text)
    /\ UNCHANGED onlyHook

\* SimpleVectorDB.fromJSON settles for one of the load calls
HookLoadSettles ==
    /\ hook.made < MaxHookInstances
    /\ \E l \in hook.loads : hook' = LoadResumed(hook, l)
    /\ UNCHANGED onlyHook

\* the component unmounts: the cleanup of the last effect runs
Unmount ==
    /\ hook.phase = "mounted"
    /\ hook' = Cleanup([hook EXCEPT !.phase = "unmounted"])
    /\ UNCHANGED onlyHook

\* insert, search or save of the hook is called with an array
HookUse ==
    /\ hook.phase = "mounted"
    /\ \E op \in HookOps : hook' = Used(hook, op)
    /\ UNCHANGED onlyHook

NextHook ==
    Mount \/ WasmReady \/ Rerender \/ HookLoad \/ HookLoadSettles \/ Unmount \/ HookUse

SpecHook == Init /\ [][NextHook]_vars

\* C22: once the component is unmounted and every load call has settled,
\* no instance that the hook created or loaded is still live.
C22_NoneLiveAfterUnmount ==
    (hook.phase = "unmounted" /\ hook.loads = {}) => hook.live = {}

\* the _searchLayer call after which search returns: its layer, its entry
\* and its answer (sl), when the loop of search gets to one
NoFinalCall == [found |-> FALSE, n |-> 0, start |-> 0, first |-> Ok(<<>>)]

RECURSIVE FinalCall(_, _, _, _, _)
FinalTurn(idx, n, bestV, query, ef, sl) ==
    IF ~sl.ok THEN NoFinalCall
    ELSE IF sl.val = <<>> THEN FinalCall(idx, n + 1, bestV, query, ef)
    ELSE IF At(idx[n + 1], sl.val[1][2]).layerBelow = INVALID_NODE
    THEN [found |-> TRUE, n |-> n, start |-> bestV, first |-> sl]
    ELSE FinalCall(idx, n + 1, At(idx[n + 1], sl.val[1][2]).layerBelow, query, ef)

FinalCall(idx, n, bestV, query, ef) ==
    IF n >= Len(idx) THEN NoFinalCall
    ELSE FinalTurn(idx, n, bestV, query, ef, searchLayer(idx[n + 1], bestV, query, ef))

RerunSame(idx, query, ef, f) ==
    f.found =>
        /\ searchLayer(idx[f.n + 1], f.first.val[1][2], query, ef) = f.first
        /\ search(idx, query, ef) = Converted(f.first)

\* C23: at the layer where search returns, the second _searchLayer call,
\* from the best node, returns the list of the first, so that search
\* returns the first call's list with the distances converted.
C23_RerunSameList ==
    (index # <<>> /\ index[1] # <<>>) =>
        \A query \in Queries, ef \in Efs : RerunSame(index, query, ef, FinalCall(index, 0, 0, query, ef))

Lists(layer, a, b) == containsConnection(At(layer, a).connections, b)

\* b's list is full of connections at least as close to b as a is
DisplacedBy(layer, a, b, cap) ==
    /\ Len(At(layer, b).connections) = cap
    /\ \A j \in 1..Len(At(layer, b).connections) :
         squaredEuclideanDistance(At(layer, b).vector,
                                  At(layer, At(layer, b).connections[j]).vector)
           <= squaredEuclideanDistance(At(layer, b).vector, At(layer, a).vector)

\* C24: in an index built by inserts, when node a lists b and b does not
\* list a, b's list holds maxConnections connections that are each at least
\* as close to b as a is.
C24_OneWayOnlyWhenDisplaced ==
    origin = "create" =>
        \A n \in 1..Len(index) : \A a, b \in 0..(Len(index[n]) - 1) :
            (Lists(index[n], a, b) /\ ~Lists(index[n], b, a))
                => DisplacedBy(index[n], a, b, maxConnections)

\* the nodes of layer n before the call are there after it, in their places,
\* with their vectors and descent pointers
NodesKept(was, now) ==
    /\ Len(now) >= Len(was)
    /\ \A i \in 1..Len(was) :
         now[i].vector = was[i].vector /\ now[i].layerBelow = was[i].layerBelow

\* layer n gained one node carrying vec at its end, or none
GainedOne(was, now, vec) == Len(now) = Len(was) + 1 /\ now[Len(now)].vector = vec
GainedNone(was, now) == Len(now) = Len(was)

\* the last call was a successful insert that left each layer as Gains tells
InsertAppends(Gains(_)) ==
    (last.op = "insert" /\ last.ok) =>
        /\ Len(index) = Len(before)
        /\ \A n \in 1..Len(index) :
             /\ NodesKept(before[n], index[n])
             /\ IF Gains(n) THEN GainedOne(before[n], index[n], last.vec)
                ELSE GainedNone(before[n], index[n])

\* layer n (1-based) is at or below the drawn layer, or the index was empty
AtDrawnOrIndexEmpty(n) == n - 1 >= last.l \/ \A k \in 1..Len(before) : before[k] = <<>>

\* layer n (1-based) is at or below the drawn layer, or was empty itself
AtDrawnOrLayerEmpty(n) == n - 1 >= last.l \/ before[n] = <<>>

\* C25 as stated: a successful insert(v) that draws layer l appends one node
\* carrying v to each layer n >= l (to every layer when the index is empty),
\* none to a layer n < l, and leaves the nodes that were there in place with
\* their vectors and descent pointers.
C25_AppendsFromDrawnLayer == InsertAppends(AtDrawnOrIndexEmpty)

\* C25: the same, a node being appended to every layer that was empty
\* before the call as well, whatever l is.
C25_AppendsFromDrawnLayerAndToEmpty == InsertAppends(AtDrawnOrLayerEmpty)

\* an insert that drew layer 1 into an index of two non-empty layers
C25_Witness ==
    /\ last.op = "insert" /\ last.ok /\ last.l = 1 /\ Len(index) = 2
    /\ before[1] # <<>> /\ Len(before[2]) >= 2
    /\ Len(index[1]) = Len(before[1]) /\ Len(index[2]) = Len(before[2]) + 1

\* C26: after successful inserts into a created index the last layer holds
\* the inserted vectors in insertion order, and each pair search returns
\* names a position of it: the node id is the number of successful inserts
\* made before the one of the vector at that distance from the query.
C26_IdsCountEarlierInserts ==
    origin = "create" =>
        /\ LayerVectors(index, Len(index)) = inserted
        /\ (last.op = "search" /\ last.ok) =>
             \A i \in 1..Len(last.out) :
                /\ last.out[i][2] < Len(inserted)
                /\ SameLength(inserted[last.out[i][2] + 1], last.vec)
                /\ last.out[i][1]
                     = Sqrt(squaredEuclideanDistance(inserted[last.out[i][2] + 1], last.vec))

\* the third vector inserted is found by a search, in an index whose layer
\* 0 holds fewer nodes than were inserted
C26_Witness ==
    /\ origin = "create" /\ last.op = "search" /\ last.ok
    /\ Len(inserted) = 3 /\ Len(index) = 2 /\ Len(index[1]) = 2
    /\ last.out # <<>> /\ last.out[1] = <<0, 2>>
    /\ inserted[3] = last.vec /\ inserted[2] # last.vec

RECURSIVE StartOf(_)
\* the entry insert used at layer n of the index before the call
StartOf(n) ==
    IF n = 0 THEN 0
    ELSE IF before[n] = <<>> THEN StartOf(n - 1)
    ELSE IF n - 1 < last.l
    THEN AfterRoute(before, StartOf(n - 1),
                    searchLayer(before[n], StartOf(n - 1), last.vec, 1)).startV
    ELSE IF StartOf(n - 1) < Len(index[n])
    THEN At(index[n], StartOf(n - 1)).layerBelow
    ELSE INVALID_NODE

\* the list of node b of the layer is full of connections at least as close
\* to b as vec is
FullOfCloser(layer, b, vec, cap) ==
    /\ Len(At(layer, b).connections) >= cap
    /\ \A j \in 1..Len(At(layer, b).connections) :
         squaredEuclideanDistance(At(layer, b).vector,
                                  At(layer, At(layer, b).connections[j]).vector)
           <= squaredEuclideanDistance(At(layer, b).vector, vec)

\* in layer n (counted from 1), sel being the first min(maxConnections, |R|)
\* entries of R
LinkedBack(n, sel) ==
    /\ \A b \in 0..(Len(before[n]) - 1) :
         Lists(index[n], b, Len(before[n])) => \E i \in 1..Len(sel) : sel[i] = b
    /\ \A i \in 1..Len(sel) :
         \/ Lists(index[n], sel[i], Len(before[n]))
         \/ FullOfCloser(before[n], sel[i], last.vec, maxConnections)

\* R = _searchLayer(layer, start, v, efc) of layer n before the insert
BeamOf(n) == searchLayer(before[n], StartOf(n - 1), last.vec, efc)

\* C27: after a successful insert(v) that drew l, in each layer n >= l that
\* held nodes before, the earlier nodes that list the new node are among the
\* first min(maxConnections, |R|) entries of R, and each of these lists the
\* new node unless its list was full of connections at least as close.
C27_BackEdgesToSelected ==
    (last.op = "insert" /\ last.ok) =>
        \A n \in 1..Len(index) :
            (before[n] # <<>> /\ n - 1 >= last.l) =>
                /\ BeamOf(n).ok
                /\ LinkedBack(n, SelectedNeighbors(BeamOf(n).val, maxConnections))

\* R holds more nodes than are selected, and the selected one keeps its
\* closer connection instead of the new node
C27_Witness ==
    /\ last.op = "insert" /\ last.ok
    /\ \E n \in 1..Len(index) :
         /\ Len(before[n]) = 2 /\ n - 1 >= last.l /\ maxConnections = 1
         /\ Len(BeamOf(n).val) = 2
         /\ ~Lists(index[n], BeamOf(n).val[1][2], 2)
         /\ \E m \in 1..Len(index) :
              /\ m - 1 >= last.l /\ before[m] # <<>>
              /\ Lists(index[m], BeamOf(m).val[1][2], Len(before[m]))

\* the squared distance of node c from node i of the layer
Apart(layer, i, c) == squaredEuclideanDistance(At(layer, i).vector, At(layer, c).vector)

\* the connections of was that are nodes of the layer; and those other than i
InRange(layer, i, c) == c < Len(layer)
InRangeNotSelf(layer, i, c) == c < Len(layer) /\ c # i

\* now is what a prune of node i, which listed was, may leave
PrunedFrom(was, now, layer, i, cap, Counts(_, _, _)) ==
    /\ Len(now) <= cap
    /\ \A j, k \in 1..Len(now) :
         /\ now[j] < Len(layer)
         /\ j < k => now[j] # now[k] /\ Apart(layer, i, now[j]) <= Apart(layer, i, now[k])
    /\ \A d \in 1..Len(was), k \in 1..Len(now) :
         (Counts(layer, i, was[d]) /\ ~containsConnection(now, was[d]))
            => ~(Apart(layer, i, was[d]) < Apart(layer, i, now[k]))

\* every node of the index loaded last is pruned from its list in the document
LoadPrunes(Counts(_, _, _)) ==
    (last.op = "fromDocument" /\ last.ok) =>
        \A n \in 1..Len(index) : \A i \in 0..(Len(index[n]) - 1) :
            PrunedFrom(given.index[n][i + 1].connections, At(index[n], i).connections,
                       index[n], i, maxConnections, Counts)

\* C28: after a node is pruned its list has no duplicate, is in ascending
\* order of distance from the node, holds at most maxConnections entries,
\* and no dropped connection that is in range is strictly closer to the node
\* than a kept one.
C28_PruneKeepsClosest == LoadPrunes(InRange)

\* C28 as amended: the same, of the dropped connections that are in range
\* and are not the node itself.
C28_PruneKeepsClosestOfOthers == LoadPrunes(InRangeNotSelf)

\* a node that listed itself, a node out of range and two others, under a
\* cap of 1: it keeps the closer of the two others
C28_Witness ==
    /\ last.op = "fromDocument" /\ last.ok /\ maxConnections = 1
    /\ \E n \in 1..Len(index) : \E i \in 0..(Len(index[n]) - 1) :
         /\ containsConnection(given.index[n][i + 1].connections, i)
         /\ \E d \in 1..Len(given.index[n][i + 1].connections) :
              given.index[n][i + 1].connections[d] >= Len(index[n])
         /\ Len(At(index[n], i).connections) = 1
         /\ \E d \in 1..Len(given.index[n][i + 1].connections) :
              /\ InRangeNotSelf(index[n], i, given.index[n][i + 1].connections[d])
              /\ Apart(index[n], i, given.index[n][i + 1].connections[d])
                   > Apart(index[n], i, At(index[n], i).connections[1])

\* ------------------------------------------ _searchLayer, turn by turn
notProbe == <<engine, storage, hook, wasm, cache>>

\* _searchLayer(graph, entry, query, ef) is called
ProbeCall ==
    /\ probe.phase = "idle"
    /\ \E graph \in ProbeLayers, entry \in ProbeEntries, query \in Vectors, ef \in 0..MaxEf :
         probe' = Entered([NoProbe EXCEPT !.graph = graph, !.entry = entry,
                                          !.query = query, !.ef = ef])
    /\ UNCHANGED notProbe

\* one turn of the while loop
ProbeTurn ==
    /\ probe.phase = "looping" /\ ~probe.st.err /\ probe.st.cand # <<>>
    /\ probe' = [probe EXCEPT !.st = Expand(probe.graph, probe.query, probe.ef, @),
                              !.turns = @ + 1]
    /\ UNCHANGED notProbe

\* the loop is left: best is sorted and returned, or the throw goes on
ProbeReturn ==
    /\ probe.phase = "looping" /\ (probe.st.err \/ probe.st.cand = <<>>)
    /\ probe' = Ended(probe, Finish(probe.st))
    /\ UNCHANGED notProbe

NextProbe == ProbeCall \/ ProbeTurn \/ ProbeReturn

InitProbe == Init /\ L = 1 /\ efc = 1 /\ maxConnections = 1 /\ mL = CHOOSE m \in MLValues : TRUE

SpecProbe == InitProbe /\ [][NextProbe]_vars

\* a call that was made runs on
SpecProbeRuns == SpecProbe /\ WF_vars(ProbeTurn) /\ WF_vars(ProbeReturn)

\* the call taken turn by turn ends as _searchLayer does
ProbeIsSearchLayer ==
    probe.phase \in {"returned", "thrown"} =>
        probe.out = searchLayer(probe.graph, probe.entry, probe.query, probe.ef)

\* the nodes of the list R
NodesOf(R) == {R[i][2] : i \in 1..Len(R)}

\* the nodes one connection away from a node of S, within the layer
Linked(graph, S) ==
    {c \in 0..(Len(graph) - 1) : \E r \in S : containsConnection(At(graph, r).connections, c)}

RECURSIVE Reachable(_, _)
\* the nodes reachable from the nodes of S along connections
Reachable(graph, S) ==
    IF Linked(graph, S) \subseteq S THEN S ELSE Reachable(graph, S \cup Linked(graph, S))

\* no node linked from R but left out of it is closer to the query than the
\* last, farthest, pair of R
LocallyOptimal(graph, query, R) ==
    \A c \in Linked(graph, NodesOf(R)) \ NodesOf(R) :
        /\ SameLength(At(graph, c).vector, query)
        /\ squaredEuclideanDistance(At(graph, c).vector, query) >= R[Len(R)][1]

\* C29: for a layer, a valid entry, a query and ef >= 1, no in-range
\* connection of a node of the returned list R that is not in R is closer to
\* the query than the farthest node of R, and when R holds fewer than ef
\* nodes it holds exactly the nodes reachable from the entry.
C29_LocallyOptimal ==
    (probe.phase = "returned" /\ probe.graph # <<>> /\ probe.ef >= 1) =>
        /\ probe.out.val # <<>>
        /\ \A i \in 1..Len(probe.out.val) : probe.out.val[i][1] <= probe.out.val[Len(probe.out.val)][1]
        /\ LocallyOptimal(probe.graph, probe.query, probe.out.val)
        /\ Len(probe.out.val) < probe.ef
             => NodesOf(probe.out.val) = Reachable(probe.graph, {probe.entry})

\* a returned list of ef = 2 nodes that leaves out a node linked from it,
\* in a layer with a list naming the node itself and a node out of range
C29_Witness ==
    /\ probe.phase = "returned" /\ probe.ef = 2 /\ Len(probe.out.val) = 2
    /\ Linked(probe.graph, NodesOf(probe.out.val)) \ NodesOf(probe.out.val) # {}
    /\ probe.turns = 3
    /\ \E i \in 0..2 : containsConnection(At(probe.graph, i).connections, i)
    /\ \E i \in 0..2 : containsConnection(At(probe.graph, i).connections, 7)

\* fewer than ef nodes are returned, all that can be reached, while the
\* layer holds one more
FewerThanAskedAllReached ==
    /\ probe.phase = "returned" /\ probe.ef = 2 /\ Len(probe.out.val) = 1
    /\ Reachable(probe.graph, {probe.entry}) = {probe.entry}
    /\ At(probe.graph, probe.entry).connections # <<>>

\* what a call of _searchLayer has read and computed so far is within the
\* layer, and no node's distance was computed twice
WithinLayer ==
    /\ \A i \in 1..Len(probe.st.computed) :
         /\ probe.st.computed[i] < Len(probe.graph)
         /\ \A j \in 1..Len(probe.st.computed) : i # j => probe.st.computed[i] # probe.st.computed[j]
    /\ \A i \in 1..Len(probe.st.cand) : probe.st.cand[i][2] < Len(probe.graph)
    /\ probe.turns <= Len(probe.graph)
    /\ probe.phase = "returned" =>
         \A i \in 1..Len(probe.out.val) : probe.out.val[i][2] < Len(probe.graph)

\* C30: a call of _searchLayer on any layer content - cyclic, asymmetric,
\* self-referencing or out-of-range connections - ends, computes no node's
\* distance twice, reads no node outside the layer and returns only indices
\* of nodes of the layer.
C30_EndsWithinLayer ==
    /\ []WithinLayer
    /\ (probe.phase = "looping") ~> (probe.phase \in {"returned", "thrown"})

\* a call returned after three turns on a layer where node 0 names itself
\* and node 1, node 1 names node 2 and node 0, and node 2 names a node that
\* does not exist and itself
C30_Witness ==
    /\ probe.phase = "returned" /\ probe.turns = 3 /\ Len(probe.st.computed) = 3
    /\ At(probe.graph, 0).connections = <<0, 1>>
    /\ At(probe.graph, 1).connections = <<2, 0>>
    /\ At(probe.graph, 2).connections = <<7, 2>>
    /\ probe.entry = 0

\* the layer drawn by the j-th insert of instance k
FleetDrawn(k, j) == getInsertLayer(NegLogOf(Generated(fleet[k].seed, j)), mL, L)

RECURSIVE FleetIndexAfter(_, _)
\* the layers of instance k after the first j of its inserts
FleetIndexAfter(k, j) ==
    IF j = 0 THEN [n \in 1..L |-> <<>>]
    ELSE insert(FleetIndexAfter(k, j - 1), fleet[k].fed[j], FleetDrawn(k, j), Params).index

\* the node insert(vec) chose in layer n (counted from 0) of the layers was,
\* entered at entry: the best match above the drawn layer l, the entry in
\* the other layers
ChosenIn(was, vec, l, n, entry) ==
    IF n < l /\ searchLayer(was[n + 1], entry, vec, 1).val # <<>>
    THEN searchLayer(was[n + 1], entry, vec, 1).val[1][2]
    ELSE entry

RECURSIVE EntryAt(_, _, _, _)
\* the entry insert(vec) hands to _searchLayer in layer n of the layers was
EntryAt(was, vec, l, n) ==
    IF n = 0 THEN 0
    ELSE IF was[n] = <<>> THEN EntryAt(was, vec, l, n - 1)
    ELSE IF n - 1 < l
    THEN AfterRoute(was, EntryAt(was, vec, l, n - 1),
                    searchLayer(was[n], EntryAt(was, vec, l, n - 1), vec, 1)).startV
    ELSE IF EntryAt(was, vec, l, n - 1) < Len(was[n])
    THEN At(was[n], EntryAt(was, vec, l, n - 1)).layerBelow
    ELSE INVALID_NODE

\* in each layer below a layer that held nodes, the entry is a node with the
\* vector of the node chosen in the layer above
EntriesAreCounterparts(was, vec, l) ==
    \A n \in 0..(Len(was) - 2) :
        (was[n + 1] # <<>> /\ EntryAt(was, vec, l, n) < Len(was[n + 1]))
            => /\ EntryAt(was, vec, l, n + 1) < Len(was[n + 2])
               /\ At(was[n + 2], EntryAt(was, vec, l, n + 1)).vector
                    = At(was[n + 1], ChosenIn(was, vec, l, n, EntryAt(was, vec, l, n))).vector

\* C31: during an insert into an index built by inserts, the entry handed
\* to _searchLayer in layer n+1 is the node of layer n+1 that carries the
\* vector of the node chosen in layer n: of the best match where the insert
\* only routes (n < l), of the entry where it takes part.
C31_EntryIsCounterpart ==
    \A k \in Instances :
        fleet[k].created =>
            \A j \in 1..Len(fleet[k].fed) :
                (\A i \in 1..j : Len(fleet[k].fed[i]) = 1)
                    => EntriesAreCounterparts(FleetIndexAfter(k, j - 1), fleet[k].fed[j],
                                              FleetDrawn(k, j))

\* the first j vectors given to instance k have one length
EqualLengths(k, j) == \A i \in 1..j : Len(fleet[k].fed[i]) = Len(fleet[k].fed[1])

\* every entry insert(vec) hands to _searchLayer is a node of the layer
EntriesInRange(was, vec, l) ==
    \A n \in 0..(Len(was) - 1) : was[n + 1] # <<>> => EntryAt(was, vec, l, n) < Len(was[n + 1])

\* C32: on an index built by inserts of vectors of one length, the insert
\* of another vector of that length succeeds, and every entry it hands to
\* _searchLayer is a node of the layer searched.
C32_InsertNeverFails ==
    \A k \in Instances :
        fleet[k].created =>
            \A j \in 1..Len(fleet[k].fed) :
                EqualLengths(k, j) =>
                    /\ insert(FleetIndexAfter(k, j - 1), fleet[k].fed[j], FleetDrawn(k, j),
                              Params).ok
                    /\ EntriesInRange(FleetIndexAfter(k, j - 1), fleet[k].fed[j],
                                      FleetDrawn(k, j))

\* a fourth insert that routes through layer 0 and enters layer 1 at node 1
C32_Witness ==
    \E k \in Instances :
        /\ fleet[k].created /\ L = 2 /\ Len(fleet[k].fed) = 4 /\ EqualLengths(k, 4)
        /\ FleetDrawn(k, 4) = 1
        /\ Len(FleetIndexAfter(k, 3)[1]) = 2
        /\ EntryAt(FleetIndexAfter(k, 3), fleet[k].fed[4], 1, 1) = 1
        /\ Len(fleet[k].index[2]) = 4

\* C33: on an index that fromJSON produced and whose layer 0 holds a node,
\* search with a query of the stored vectors' length and ef >= 1 returns a
\* list that is not empty, and does not throw.
C33_LoadedIndexAnswers ==
    (last.op = "fromDocument" /\ last.ok /\ index[1] # <<>>) =>
        \A query \in Queries, ef \in 1..MaxEf :
            HasLength(index, Len(query)) =>
                /\ search(index, query, ef).ok
                /\ search(index, query, ef).val # <<>>

\* the entry of the call is a node of its layer
ValidEntry == probe.entry # INVALID_NODE /\ probe.entry < Len(probe.graph)

\* the call ended with the empty list; with the throw of an invalid entry
EndedEmpty == probe.phase = "returned" /\ probe.out = Ok(<<>>)
EndedInvalidEntry == probe.phase = "thrown" /\ probe.out = Err(InvalidEntryMsg)

\* C34: _searchLayer returns the empty list whenever the layer is empty or
\* ef <= 0, whatever the entry; on a layer with nodes and ef >= 1 it throws
\* "Invalid entry index" exactly when the entry is not a node of the layer.
C34_EmptyWhateverTheEntry ==
    probe.phase \in {"returned", "thrown"} =>
        /\ (probe.graph = <<>> \/ probe.ef <= 0) => EndedEmpty
        /\ (probe.graph # <<>> /\ probe.ef >= 1) => (EndedInvalidEntry <=> ~ValidEntry)

\* C34 as amended: the empty list is returned whenever the layer is empty,
\* and for ef <= 0 when the entry is a node of the layer; on a layer with
\* nodes the call throws "Invalid entry index" exactly when the entry is
\* not a node of it, whatever ef.
C34_EntryCheckedBeforeEf ==
    probe.phase \in {"returned", "thrown"} =>
        /\ (probe.graph = <<>> \/ (probe.ef <= 0 /\ ValidEntry)) => EndedEmpty
        /\ probe.graph # <<>> => (EndedInvalidEntry <=> ~ValidEntry)

\* a call with ef = 0 and an entry past the end of a layer of three nodes
C34_Witness ==
    /\ EndedInvalidEntry /\ probe.ef = 0 /\ Len(probe.graph) = 3 /\ probe.entry = 3

\* C35: a call of the hook's insert, search or save acts on a live instance
\* or throws 'VectorDB not initialized'; it never reaches an instance the
\* hook has deleted, also while a load is pending or after one was rejected.
C35_NoUseOfDeleted ==
    hook.used.op # "none" => hook.used.outcome \in {"acted on the index", NotInitializedMsg}

\* ----------------------------------------------- initializeWasm calls
notWasm == <<engine, storage, hook, probe, cache>>

\* initializeWasm() is called
WasmCall ==
    /\ wasm.called < MaxWasmCalls
    /\ wasm' = WasmCalled(wasm)
    /\ UNCHANGED notWasm

\* the promise of one of the factory calls resolves
WasmResume ==
    /\ \E m \in wasm.awaiting : wasm' = WasmResumed(wasm, m)
    /\ UNCHANGED notWasm

NextWasm == WasmCall \/ WasmResume

SpecWasm == InitProbe /\ [][NextWasm]_vars

\* C36: however concurrent calls of initializeWasm interleave, the factory
\* createSimpleVectorDB is invoked at most once and every caller receives
\* the same module.
C36_OneModule ==
    /\ wasm.made <= 1
    /\ \A i, j \in 1..Len(wasm.got) : wasm.got[i] = wasm.got[j]

\* -------------------------------------------------------- LRUCache calls
notCache == <<engine, storage, hook, probe, wasm>>

\* LRUCache(maxSize) with the default maxAge of 0
CacheCreate ==
    /\ ~cache.made
    /\ \E maxSize \in 0..MaxCacheSize : cache' = Constructed(maxSize)
    /\ UNCHANGED notCache

\* put(key, value)
CachePut ==
    /\ cache.made
    /\ \E key \in CacheKeys, value \in CacheValues :
         cache' = [put_impl(cache, key, value) EXCEPT
                      !.op = "put", !.key = key, !.out = NoValue,
                      !.was = cache.item_list_,
                      !.recent = UsedNow(cache.recent, key)]
    /\ UNCHANGED notCache

\* get(key)
CacheGet ==
    /\ cache.made
    /\ \E key \in CacheKeys :
         cache' = [get(cache, key) EXCEPT
                      !.op = "get", !.key = key, !.was = cache.item_list_,
                      !.recent = IF key \in cache.map_ THEN UsedNow(cache.recent, key)
                                 ELSE cache.recent]
    /\ UNCHANGED notCache

NextCache == CacheCreate \/ CachePut \/ CacheGet

SpecCache == InitProbe /\ [][NextCache]_vars

\* the keys of a list of items, as a set
KeysOf(list) == {list[i][1] : i \in 1..Len(list)}

\* the key of keys used least recently: every other one comes before it in
\* the order of last use
LeastRecent(recent, keys) ==
    {k \in keys : \A o \in keys \ {k} : PlaceOf([i \in 1..Len(recent) |-> <<recent[i]>>], o)
                                        < PlaceOf([i \in 1..Len(recent) |-> <<recent[i]>>], k)}

\* the cache holds at most cap entries, each key once, and a put of a new
\* key into a cache of cap entries evicts the key used least recently
HoldsAtMost(cap) ==
    cache.made =>
        /\ Len(cache.item_list_) <= cap
        /\ \A i, j \in 1..Len(cache.item_list_) :
             i # j => cache.item_list_[i][1] # cache.item_list_[j][1]
        /\ cache.map_ = KeysOf(cache.item_list_)
        /\ (cache.op = "put" /\ cache.key \notin KeysOf(cache.was) /\ Len(cache.was) = cap)
             => /\ KeysOf(cache.was) \ KeysOf(cache.item_list_)
                     = LeastRecent(cache.recent, KeysOf(cache.was))
                /\ cache.key \in cache.map_

\* C37: after any puts and gets on an LRUCache with no age limit the cache
\* holds at most maxSize entries, each key at most once, and a put of a new
\* key into a full cache evicts exactly the key used least recently, a put
\* and a get both being a use.
C37_AtMostMaxSize == HoldsAtMost(cache.maxSize)

\* C37 as amended: the same with max(1, maxSize) for maxSize.
C37_AtMostMaxSizeOrOne == HoldsAtMost(Max(1, cache.maxSize))

\* a fourth key is put into a cache of three whose list is not in the order
\* of the puts: the key at the back goes
C37_Witness ==
    /\ cache.made /\ cache.maxSize = 3 /\ cache.op = "put" /\ Len(cache.was) = 3
    /\ cache.key \notin KeysOf(cache.was)
    /\ cache.was[1][1] < cache.was[2][1] /\ cache.was[3][1] < cache.was[2][1]
    /\ KeysOf(cache.was) \ KeysOf(cache.item_list_) = {cache.was[3][1]}
    /\ Len(cache.item_list_) = 3

====
